---- MODULE Spec2Model ----
(***************************************************************************)
(* module-kit: the service-token lease (token_provider.rs), its background *)
(* refresh loop and teardown, and the retrying credential exchange client  *)
(* (control_plane.rs).  Time is counted in whole seconds; tokens are       *)
(* numbered: 0 is the token the provider is constructed with and k > 0 is  *)
(* the token carried by the response to the k-th exchange that was begun.  *)
(***************************************************************************)
EXTENDS Integers, Sequences, FiniteSets, TLC

\* ---------------------------------------------------------------- bounds
MaxCalls == 2         \* public calls begun over one run
MaxBgIters == 1       \* exchanges the background loop begins before shutdown
MaxTime == 60         \* the clock stops advancing here (seconds)
MaxRetries == 3       \* largest configured retry count (exchange client)
MaxBgRounds == 2      \* exchanges the background loop begins in the runs over its waits
MaxRenewTime == 240   \* where the clock stops in the runs of the renewal, unless the loop waits

\* ------------------------------------------------------- program constants
TOKEN_REFRESH_LEAD_SECS == 60
AUTO_REFRESH_MIN_SLEEP_SECS == 5
AUTO_REFRESH_FALLBACK_SLEEP_SECS == 300
AUTO_REFRESH_RETRY_SECS == 5

\* ------------------------------------------------------------ input sets
Callers == {1, 2}                     \* the caller threads of one provider
TickSteps == {60}                     \* amounts by which the clock advances
TTLs == {0, 120}                      \* expires_in_seconds of a response
ErrKinds == {"Http", "TokenExchange"} \* errors exchange_token can return

\* Option<T>: None is the empty sequence, Some(x) the one-element sequence.
None == <<>>
Some(x) == <<x>>
IsSome(o) == o # <<>>
Unwrap(o) == o[1]

Max(a, b) == IF a >= b THEN a ELSE b

\* ------------------------------------------------------------------ Lease
\* ServiceTokenLease::new at time t
NewLease(token, issued_at, expires_at, ttl_seconds, t) ==
    [token |-> token, issued_at |-> issued_at, expires_at |-> expires_at,
     ttl_seconds |-> ttl_seconds, captured_at |-> t]

\* ServiceTokenLease::from_exchange at time t
from_exchange(response, t) ==
    [token |-> response.token,
     issued_at |-> Some(t),
     expires_at |-> Some(t + response.expires_in_seconds),
     ttl_seconds |-> Some(response.expires_in_seconds),
     captured_at |-> t]

effective_expires_at(l) ==
    IF IsSome(l.expires_at) THEN l.expires_at
    ELSE IF IsSome(l.ttl_seconds)
         THEN Some(l.captured_at + Unwrap(l.ttl_seconds))
         ELSE None

remaining_duration(l, t) ==
    LET expires == effective_expires_at(l)
    IN  IF IsSome(expires) THEN Some(Max(Unwrap(expires) - t, 0)) ELSE None

should_refresh_lt(l, lead, t) ==
    LET remaining == remaining_duration(l, t)
    IN  IF IsSome(remaining) THEN Unwrap(remaining) < lead ELSE FALSE

\* A mutant: a lease whose remaining validity is unknown is due for refresh.
should_refresh_unknown(l, lead, t) ==
    LET remaining == remaining_duration(l, t)
    IN  IF IsSome(remaining) THEN Unwrap(remaining) <= lead ELSE TRUE

should_refresh(l, lead, t) ==
    LET remaining == remaining_duration(l, t)
    IN  IF IsSome(remaining) THEN Unwrap(remaining) <= lead ELSE FALSE

\* Durations are counted in ticks, tps of them to the second (one in the
\* runs of the provider, where time is in whole seconds).
\* Duration::whole_seconds of a duration that is not negative.
whole_seconds(d, tps) == d \div tps

\* A mutant: the part of a second is kept.
duration_to_std_exact(d, tps) == IF d < 0 THEN 0 ELSE d

\* lines 232-238: zero if negative, else Duration::from_secs(whole_seconds).
duration_to_std_in(d, tps) == IF d < 0 THEN 0 ELSE whole_seconds(d, tps) * tps

duration_to_std(d) == duration_to_std_in(d, 1)

\* A mutant: the loop sleeps until the lease expires.
next_refresh_wait_no_lead(l, lead, t, tps) ==
    LET remaining == remaining_duration(l, t)
        wait_duration ==
            IF IsSome(remaining)
            THEN IF Unwrap(remaining) <= lead
                 THEN AUTO_REFRESH_MIN_SLEEP_SECS * tps
                 ELSE Unwrap(remaining)
            ELSE AUTO_REFRESH_FALLBACK_SLEEP_SECS * tps
    IN  duration_to_std_in(wait_duration, tps)

next_refresh_wait_in(l, lead, t, tps) ==
    LET remaining == remaining_duration(l, t)
        wait_duration ==
            IF IsSome(remaining)
            THEN IF Unwrap(remaining) <= lead
                 THEN AUTO_REFRESH_MIN_SLEEP_SECS * tps
                 ELSE Unwrap(remaining) - lead
            ELSE AUTO_REFRESH_FALLBACK_SLEEP_SECS * tps
    IN  duration_to_std_in(wait_duration, tps)

next_refresh_wait(l, lead, t) == next_refresh_wait_in(l, lead, t, 1)

\* ModuleTokenExchangeResponse of exchange k with the given ttl
Response(k, scopes, ttl) ==
    [token |-> k, scopes |-> scopes, expires_in_seconds |-> ttl]


\* The requests of the two kinds of exchange: the refresh of the default token
\* (scopes: Vec::new(), reason: AUTO_REFRESH_REASON) and the caller's own.
RefreshRequest == [scopes |-> <<>>, reason |-> Some("service_token_refresh")]
ScopedRequests == {[scopes |-> <<"db:write">>, reason |-> Some("db_connector")],
                   [scopes |-> <<"db:read">>, reason |-> None]}

\* The leases a provider is constructed with (at time 0).
InitialLeases ==
    {NewLease(0, None, None, None, 0),
     NewLease(0, None, None, Some(120), 0),
     NewLease(0, None, Some(30), None, 0)}

\* ------------------------------------------------------------------ state
VARIABLES
    now,         \* the clock (OffsetDateTime::now_utc / Instant::now), seconds
    hasCP,       \* ServiceTokenProvider.control_plane.is_some()
    initial,     \* the Lease the provider was constructed with
    lease,       \* ServiceTokenProvider.lease (the value behind the Mutex)
    shutdown,    \* AutoRefreshHandle.shutdown
    parkToken,   \* the background thread's unpark token
    bgpc,        \* position of the background thread in run_auto_refresh_loop
    bgDeadline,  \* when its park_timeout / sleep ends
    bgIters,     \* exchanges the background loop has begun
    tdpc,        \* position of the owner in AutoRefreshHandle::drop
    sd,          \* where the background thread was when the flag was stored
    call,        \* per caller thread: position, the call in progress, the last result
    inflight,    \* exchange_token calls that have not returned yet
    nExch,       \* exchanges begun so far (the next one is nExch + 1)
    nCalls,      \* public calls begun so far
    nWrites,     \* replacements of the lease so far
    replaced,    \* the tokens of the leases that have been replaced
    xc,          \* one ControlPlaneClient::exchange_token call, step by step
    qLead,       \* the lead of a should_refresh query
    qAns,        \* its answer
    client,      \* the DbConnectorClient: its fields
    exec,        \* per caller thread of the client: the execute call in progress
    uq,          \* one ConnectorEndpoint::from_uri call: platform, uri, result
    dq,          \* one DbConnectorIntent::detect call: statement, result
    gd,          \* the two Mutex guards and the threads that take them, step by step
    wq           \* one next_refresh_wait call at sub-second resolution

pvars == <<now, hasCP, initial, lease, shutdown, parkToken, bgpc,
           bgDeadline, bgIters, tdpc, sd, call, inflight, nExch, nCalls, nWrites,
           replaced>>
qvars == <<qLead, qAns>>
cvars == <<client, exec>>
vars == <<now, hasCP, initial, lease, shutdown, parkToken, bgpc,
          bgDeadline, bgIters, tdpc, sd, call, inflight, nExch, nCalls,
          nWrites, replaced, xc, qLead, qAns, client, exec, uq, dq, gd, wq>>

\* The background thread (thread::spawn in AutoRefreshHandle::start); callers
\* are 1, 2, ...
Bg == 0

\* What is known of one public call: its inputs, what it did, its result
\* (wrote: the lease was replaced by this call as its wrote-th replacement;
\* readAt: how often the lease had been replaced when the returned token was
\* read; left: the remaining validity of the lease then).
NoCall ==
    [op |-> "none", req |-> None, need |-> FALSE, seen |-> None,
     nex |-> 0, bearer |-> None, own |-> None, wrote |-> None,
     readAt |-> None, ctok |-> None,
     sx |-> 0, sbearer |-> None, sreq |-> None, sresp |-> None,
     kind |-> "none", token |-> None, resp |-> None, err |-> "none",
     left |-> None]

IdleCaller == [pc |-> "idle", cur |-> NoCall]

\* One exchange_token call: its position, the client's retries and backoff
\* (milliseconds), the local attempts, and what has happened: requests sent,
\* transport failures, rejections, the delays slept, the last response
\* received and the result returned.
XIdle == [pc |-> "idle", retries |-> 0, backoff |-> 0, attempts |-> 0,
          sent |-> 0, fails |-> 0, rejects |-> 0, slept |-> <<>>,
          got |-> None, result |-> None]

Exchange(id, owner, kind, bearer, req) ==
    [id |-> id, owner |-> owner, kind |-> kind, bearer |-> bearer, req |-> req]

InFlightOf(owner, kind) == {x \in inflight : x.owner = owner /\ x.kind = kind}
TheExchange(owner, kind) == CHOOSE x \in inflight : x.owner = owner /\ x.kind = kind

\* What is known of one execute call of the connector client: its intent,
\* how its credential was resolved (found, at: the cache entry seen under the
\* lock and the time of the look; bearer, own: the bearer and the token of its
\* write-token exchange; ttl: the expires_in_seconds of its response; nex: its
\* exchanges; stored: the entry it put in the cache), the provider's lease token when the credential was resolved (ptok),
\* the envelope's token, the sends to the broker, the bytes received and the
\* result.
NoExec ==
    [intent |-> "none", found |-> None, at |-> 0, bearer |-> None, own |-> None,
     ttl |-> None, nex |-> 0, stored |-> None, ptok |-> None, token |-> None, sends |-> 0,
     bytes |-> None, kind |-> "none", err |-> "none", response |-> None]

IdleExec == [pc |-> "idle", cur |-> NoExec]

ConnCallers == {1, 2}                 \* the caller threads of one client

\* The threads that take the guard of the default Lease or of the cached
\* write token: the background thread, two callers of current_token() and two
\* callers of execute() with a write intent.
GuardThreads == {"bg", "c1", "c2", "w1", "w2"}

\* Both guards free, no thread inside a network call, every thread at its start.
NoGuards ==
    [lease_guard |-> "free", cache_guard |-> "free",
     pc |-> [t \in GuardThreads |-> IF t = "bg" THEN "top" ELSE "idle"],
     io |-> {}]

\* No connector client and no from_uri call are part of the run.
NoConnector ==
    /\ client = [default_token |-> 0, control_plane |-> FALSE,
                 cached_write_token |-> None]
    /\ exec = [c \in ConnCallers |-> IdleExec]
    /\ uq = None
    /\ dq = None
    /\ gd = NoGuards
    /\ wq = None

Init ==
    /\ now = 0
    /\ hasCP \in BOOLEAN
    /\ initial \in InitialLeases
    /\ lease = initial
    /\ shutdown = FALSE
    /\ parkToken = FALSE
    /\ bgpc = IF hasCP THEN "top" ELSE "none"
    /\ bgDeadline = 0
    /\ bgIters = 0
    /\ tdpc = "live"
    /\ sd = None
    /\ call = [c \in Callers |-> IdleCaller]
    /\ inflight = {}
    /\ nExch = 0
    /\ nCalls = 0
    /\ nWrites = 0
    /\ replaced = {}
    /\ NoConnector
    /\ xc = XIdle
    /\ qLead = 0
    /\ qAns = None


\* ------------------------------------------------------- caller threads
Lead == TOKEN_REFRESH_LEAD_SECS       \* ServiceTokenProvider.refresh_lead

AllIdle == \A c \in Callers : call[c].pc = "idle"

\* The call of caller c ends with the record r as its result.
Return(c, r) ==
    call' = [call EXCEPT ![c].pc = "returned", ![c].cur = r]

\* A mutant: after a refresh the token read before it is returned.
ReturnTokenReadBefore(c, r) ==
    Return(c, [r EXCEPT !.kind = "ok",
                        !.token = IF r.need THEN r.seen ELSE Some(lease.token),
                        !.readAt = Some(nWrites),
                        !.left = remaining_duration(lease, now)])

\* A mutant: the token the provider was built with is returned.
ReturnTokenOfInitial(c, r) ==
    Return(c, [r EXCEPT !.kind = "ok", !.token = Some(initial.token),
                        !.readAt = Some(nWrites),
                        !.left = remaining_duration(lease, now)])

\* current_token returns Ok(lease.token) to the caller (lines 106, 113, 119).
ReturnToken(c, r) ==
    Return(c, [r EXCEPT !.kind = "ok", !.token = Some(lease.token),
                        !.readAt = Some(nWrites),
                        !.left = remaining_duration(lease, now)])

\* issue_scoped_token, after current_token gave it the bearer (lines 127-131):
\* without a control plane it fails, otherwise the scoped exchange begins.
AfterBearer(c, r) ==
    IF ~hasCP
    THEN /\ Return(c, [r EXCEPT !.kind = "err", !.err = "ControlPlaneMissing",
                                !.ctok = Some(lease.token)])
         /\ UNCHANGED <<inflight, nExch>>
    ELSE /\ call' = [call EXCEPT ![c].pc = "scoped",
                                 ![c].cur = [r EXCEPT !.ctok = Some(lease.token),
                                                      !.sx = r.sx + 1]]
         /\ inflight' = inflight \cup
                {Exchange(nExch + 1, c, "scoped", lease.token, Unwrap(r.req))}
         /\ nExch' = nExch + 1

\* What follows the token that current_token read from the lease.
GotToken(c, r) ==
    IF r.op = "current_token"
    THEN ReturnToken(c, r) /\ UNCHANGED <<inflight, nExch>>
    ELSE AfterBearer(c, r)

\* A mutant: no early return for a provider without a control plane.
CtEnterNoEarlyReturn(c, r) ==
    IF should_refresh(lease, Lead, now)
    THEN IF hasCP
         THEN /\ call' = [call EXCEPT ![c].pc = "refreshing",
                             ![c].cur = [r EXCEPT !.need = TRUE, !.nex = 1,
                                                  !.seen = Some(lease.token)]]
              /\ inflight' = inflight \cup
                    {Exchange(nExch + 1, c, "default", lease.token, RefreshRequest)}
              /\ nExch' = nExch + 1
         ELSE /\ Return(c, [r EXCEPT !.kind = "err", !.err = "ControlPlaneMissing"])
              /\ UNCHANGED <<inflight, nExch>>
    ELSE GotToken(c, r)

\* current_token, lines 105-117: the early return without a control plane,
\* the check under the lock, and the call of refresh_default_token.
CtEnter(c, r) ==
    IF ~hasCP
    THEN GotToken(c, r)
    ELSE IF should_refresh(lease, Lead, now)
         THEN /\ call' = [call EXCEPT ![c].pc = "refreshing",
                             ![c].cur = [r EXCEPT !.need = TRUE, !.nex = 1,
                                                  !.seen = Some(lease.token)]]
              /\ inflight' = inflight \cup
                    {Exchange(nExch + 1, c, "default", lease.token, RefreshRequest)}
              /\ nExch' = nExch + 1
         ELSE GotToken(c, [r EXCEPT !.seen = Some(lease.token)])

\* A caller thread calls current_token().
CallCurrentToken(c) ==
    /\ call[c].pc = "idle"
    /\ tdpc = "live"
    /\ nCalls < MaxCalls
    /\ nCalls' = nCalls + 1
    /\ CtEnter(c, [NoCall EXCEPT !.op = "current_token"])
    /\ UNCHANGED <<now, hasCP, initial, lease, shutdown, parkToken, bgpc,
                   bgDeadline, bgIters, tdpc, sd, nWrites, replaced,
                   xc, qLead, qAns, cvars, uq, dq, gd, wq>>

\* A caller thread calls issue_scoped_token(request).
CallIssueScopedToken(c) ==
    /\ call[c].pc = "idle"
    /\ tdpc = "live"
    /\ nCalls < MaxCalls
    /\ nCalls' = nCalls + 1
    /\ \E req \in ScopedRequests :
          CtEnter(c, [NoCall EXCEPT !.op = "issue_scoped_token", !.req = Some(req)])
    /\ UNCHANGED <<now, hasCP, initial, lease, shutdown, parkToken, bgpc,
                   bgDeadline, bgIters, tdpc, sd, nWrites, replaced,
                   xc, qLead, qAns, cvars, uq, dq, gd, wq>>

\* The caller goes on with the result of its call.
CallReturned(c) ==
    /\ call[c].pc = "returned"
    /\ call' = [call EXCEPT ![c] = IdleCaller]
    /\ UNCHANGED <<now, hasCP, initial, lease, shutdown, parkToken, bgpc,
                   bgDeadline, bgIters, tdpc, sd, inflight, nExch, nCalls,
                   nWrites, replaced, xc, qLead, qAns, cvars, uq, dq, gd, wq>>

\* exchange_default_token, lines 245-254, on Ok: the response becomes the lease.
CtRefreshOk(c) ==
    /\ call[c].pc = "refreshing"
    /\ \E ttl \in TTLs :
          LET x == TheExchange(c, "default")
              response == Response(x.id, x.req.scopes, ttl)
          IN  /\ lease' = from_exchange(response, now)
              /\ nWrites' = nWrites + 1
              /\ replaced' = replaced \cup {lease.token}
              /\ inflight' = inflight \ {x}
              /\ call' = [call EXCEPT ![c].pc = "reread",
                                      ![c].cur.bearer = Some(x.bearer),
                                      ![c].cur.own = Some(response.token),
                                      ![c].cur.wrote = Some(nWrites + 1)]
    /\ UNCHANGED <<now, hasCP, initial, shutdown, parkToken, bgpc, bgDeadline,
                   bgIters, tdpc, sd, nExch, nCalls, xc, qLead, qAns, cvars, uq, dq, gd, wq>>

\* A mutant: when the refresh fails the old token is returned.
CtRefreshErrFallback(c) ==
    /\ call[c].pc = "refreshing"
    /\ \E e \in ErrKinds :
          LET x == TheExchange(c, "default")
          IN  /\ inflight' = inflight \ {x}
              /\ Return(c, [call[c].cur EXCEPT !.kind = "ok",
                                               !.token = Some(lease.token),
                                               !.bearer = Some(x.bearer)])
    /\ UNCHANGED <<now, hasCP, initial, lease, shutdown, parkToken, bgpc,
                   bgDeadline, bgIters, tdpc, sd, nExch, nCalls, nWrites, replaced,
                   xc, qLead, qAns, cvars, uq, dq, gd, wq>>

\* exchange_default_token, line 251, on Err: `?` in lines 251 and 117 (and 126)
\* returns the error to the caller.
CtRefreshErr(c) ==
    /\ call[c].pc = "refreshing"
    /\ \E e \in ErrKinds :
          LET x == TheExchange(c, "default")
          IN  /\ inflight' = inflight \ {x}
              /\ Return(c, [call[c].cur EXCEPT !.kind = "err", !.err = e,
                                               !.bearer = Some(x.bearer)])
    /\ UNCHANGED <<now, hasCP, initial, lease, shutdown, parkToken, bgpc,
                   bgDeadline, bgIters, tdpc, sd, nExch, nCalls, nWrites, replaced,
                   xc, qLead, qAns, cvars, uq, dq, gd, wq>>

\* current_token, line 119: the token is read from the lease again.
CtReread(c) ==
    /\ call[c].pc = "reread"
    /\ GotToken(c, call[c].cur)
    /\ UNCHANGED <<now, hasCP, initial, lease, shutdown, parkToken, bgpc,
                   bgDeadline, bgIters, tdpc, sd, nCalls, nWrites, replaced,
                   xc, qLead, qAns, cvars, uq, dq, gd, wq>>

\* A mutant: the scoped response is kept as the provider's lease.
ScopedOkStored(c) ==
    /\ call[c].pc = "scoped"
    /\ \E ttl \in TTLs :
          LET x == TheExchange(c, "scoped")
              response == Response(x.id, x.req.scopes, ttl)
          IN  /\ inflight' = inflight \ {x}
              /\ lease' = from_exchange(response, now)
              /\ Return(c, [call[c].cur EXCEPT !.kind = "ok",
                                !.resp = Some(response), !.sresp = Some(response),
                                !.sbearer = Some(x.bearer), !.sreq = Some(x.req)])
    /\ UNCHANGED <<now, hasCP, initial, shutdown, parkToken, bgpc,
                   bgDeadline, bgIters, tdpc, sd, nExch, nCalls, nWrites, replaced,
                   xc, qLead, qAns, cvars, uq, dq, gd, wq>>

\* issue_scoped_token, line 131, on Ok: the response is the result.
ScopedOk(c) ==
    /\ call[c].pc = "scoped"
    /\ \E ttl \in TTLs :
          LET x == TheExchange(c, "scoped")
              response == Response(x.id, x.req.scopes, ttl)
          IN  /\ inflight' = inflight \ {x}
              /\ Return(c, [call[c].cur EXCEPT !.kind = "ok",
                                !.resp = Some(response), !.sresp = Some(response),
                                !.sbearer = Some(x.bearer), !.sreq = Some(x.req)])
    /\ UNCHANGED <<now, hasCP, initial, lease, shutdown, parkToken, bgpc,
                   bgDeadline, bgIters, tdpc, sd, nExch, nCalls, nWrites, replaced,
                   xc, qLead, qAns, cvars, uq, dq, gd, wq>>

\* issue_scoped_token, line 131, on Err.
ScopedErr(c) ==
    /\ call[c].pc = "scoped"
    /\ \E e \in ErrKinds :
          LET x == TheExchange(c, "scoped")
          IN  /\ inflight' = inflight \ {x}
              /\ Return(c, [call[c].cur EXCEPT !.kind = "err", !.err = e,
                                !.sbearer = Some(x.bearer), !.sreq = Some(x.req)])
    /\ UNCHANGED <<now, hasCP, initial, lease, shutdown, parkToken, bgpc,
                   bgDeadline, bgIters, tdpc, sd, nExch, nCalls, nWrites, replaced,
                   xc, qLead, qAns, cvars, uq, dq, gd, wq>>


\* ------------------------------------------ run_auto_refresh_loop (thread)
\* line 183: the first load of the shutdown flag (the loop is followed for at
\* most n exchanges).
BgCheckTopUpTo(n) ==
    /\ bgpc = "top"
    /\ shutdown \/ bgIters < n
    /\ bgpc' = IF shutdown THEN "exited" ELSE "wait"
    /\ UNCHANGED <<now, hasCP, initial, lease, shutdown, parkToken,
                   bgDeadline, bgIters, tdpc, sd, call, inflight, nExch, nCalls,
                   nWrites, replaced, xc, qLead, qAns, cvars, uq, dq, gd, wq>>

BgCheckTop == BgCheckTopUpTo(MaxBgIters)

\* lines 186-191: next_refresh_wait under the lock, then park_timeout(wait)
\* unless the wait is zero.
BgWait ==
    /\ bgpc = "wait"
    /\ LET wait == next_refresh_wait(lease, Lead, now)
       IN  IF wait = 0
           THEN bgpc' = "check" /\ UNCHANGED bgDeadline
           ELSE bgpc' = "parked" /\ bgDeadline' = now + wait
    /\ UNCHANGED <<now, hasCP, initial, lease, shutdown, parkToken,
                   bgIters, tdpc, sd, call, inflight, nExch, nCalls,
                   nWrites, replaced, xc, qLead, qAns, cvars, uq, dq, gd, wq>>

\* park_timeout returns because the token is set (unpark), consuming it.
BgUnparked ==
    /\ bgpc = "parked"
    /\ parkToken
    /\ parkToken' = FALSE
    /\ bgpc' = "check"
    /\ bgDeadline' = 0
    /\ UNCHANGED <<now, hasCP, initial, lease, shutdown,
                   bgIters, tdpc, sd, call, inflight, nExch, nCalls,
                   nWrites, replaced, xc, qLead, qAns, cvars, uq, dq, gd, wq>>

\* park_timeout returns because the timeout has passed.
BgParkTimeout ==
    /\ bgpc = "parked"
    /\ now >= bgDeadline
    /\ bgpc' = "check"
    /\ bgDeadline' = 0
    /\ UNCHANGED <<now, hasCP, initial, lease, shutdown, parkToken,
                   bgIters, tdpc, sd, call, inflight, nExch, nCalls,
                   nWrites, replaced, xc, qLead, qAns, cvars, uq, dq, gd, wq>>

\* park_timeout may return spuriously, before the timeout and without a token.
BgSpuriousWake ==
    /\ bgpc = "parked"
    /\ now < bgDeadline
    /\ ~parkToken
    /\ bgpc' = "check"
    /\ bgDeadline' = 0
    /\ UNCHANGED <<now, hasCP, initial, lease, shutdown, parkToken,
                   bgIters, tdpc, sd, call, inflight, nExch, nCalls,
                   nWrites, replaced, xc, qLead, qAns, cvars, uq, dq, gd, wq>>

\* A mutant: the flag is not looked at again after the wait.
BgNoCheckAfterWait ==
    /\ bgpc = "check"
    /\ bgpc' = "bearer"
    /\ UNCHANGED <<now, hasCP, initial, lease, shutdown, parkToken,
                   bgDeadline, bgIters, tdpc, sd, call, inflight, nExch, nCalls,
                   nWrites, replaced, xc, qLead, qAns, cvars, uq, dq, gd, wq>>

\* line 192: the second load of the shutdown flag.
BgCheckAfterWait ==
    /\ bgpc = "check"
    /\ bgpc' = IF shutdown THEN "exited" ELSE "bearer"
    /\ UNCHANGED <<now, hasCP, initial, lease, shutdown, parkToken,
                   bgDeadline, bgIters, tdpc, sd, call, inflight, nExch, nCalls,
                   nWrites, replaced, xc, qLead, qAns, cvars, uq, dq, gd, wq>>

\* A mutant: the exchange is begun and the loop goes on without its result.
BgBeginExchangeNoWait ==
    /\ bgpc = "bearer"
    /\ bgpc' = "top"
    /\ inflight' = inflight \cup
          {Exchange(nExch + 1, Bg, "default", lease.token, RefreshRequest)}
    /\ nExch' = nExch + 1
    /\ bgIters' = bgIters + 1
    /\ UNCHANGED <<now, hasCP, initial, lease, shutdown, parkToken,
                   bgDeadline, tdpc, sd, call, nCalls, nWrites, replaced,
                   xc, qLead, qAns, cvars, uq, dq, gd, wq>>

\* lines 195-202: the bearer is read under the lock and the exchange begins.
BgBeginExchange ==
    /\ bgpc = "bearer"
    /\ bgpc' = "exchanging"
    /\ inflight' = inflight \cup
          {Exchange(nExch + 1, Bg, "default", lease.token, RefreshRequest)}
    /\ nExch' = nExch + 1
    /\ bgIters' = bgIters + 1
    /\ UNCHANGED <<now, hasCP, initial, lease, shutdown, parkToken,
                   bgDeadline, tdpc, sd, call, nCalls, nWrites, replaced,
                   xc, qLead, qAns, cvars, uq, dq, gd, wq>>

\* A mutant: only the token of the response is put into the lease.
BgExchangeOkTokenOnly ==
    /\ bgpc = "exchanging"
    /\ \E ttl \in TTLs :
          LET x == TheExchange(Bg, "default")
              response == Response(x.id, x.req.scopes, ttl)
          IN  /\ lease' = [lease EXCEPT !.token = response.token]
              /\ nWrites' = nWrites + 1
              /\ replaced' = replaced \cup {lease.token}
              /\ inflight' = inflight \ {x}
    /\ bgpc' = "top"
    /\ UNCHANGED <<now, hasCP, initial, shutdown, parkToken, bgDeadline, bgIters,
                   tdpc, sd, call, nExch, nCalls, xc, qLead, qAns, cvars, uq, dq, gd, wq>>

\* lines 203-206: Ok(response): the response becomes the lease.
BgExchangeOk ==
    /\ bgpc = "exchanging"
    /\ \E ttl \in TTLs :
          LET x == TheExchange(Bg, "default")
              response == Response(x.id, x.req.scopes, ttl)
          IN  /\ lease' = from_exchange(response, now)
              /\ nWrites' = nWrites + 1
              /\ replaced' = replaced \cup {lease.token}
              /\ inflight' = inflight \ {x}
    /\ bgpc' = "top"
    /\ UNCHANGED <<now, hasCP, initial, shutdown, parkToken, bgDeadline, bgIters,
                   tdpc, sd, call, nExch, nCalls, xc, qLead, qAns, cvars, uq, dq, gd, wq>>

\* A mutant: a failed exchange ends the loop.
BgExchangeErrExit ==
    /\ bgpc = "exchanging"
    /\ inflight' = inflight \ {TheExchange(Bg, "default")}
    /\ bgpc' = "exited"
    /\ UNCHANGED <<now, hasCP, initial, lease, shutdown, parkToken, bgDeadline,
                   bgIters, tdpc, sd, call, nExch, nCalls, nWrites, replaced,
                   xc, qLead, qAns, cvars, uq, dq, gd, wq>>

\* lines 207-209: Err(_): thread::sleep(AUTO_REFRESH_RETRY_SECS) begins.
BgExchangeErr ==
    /\ bgpc = "exchanging"
    /\ inflight' = inflight \ {TheExchange(Bg, "default")}
    /\ bgpc' = "retry_sleep"
    /\ bgDeadline' = now + AUTO_REFRESH_RETRY_SECS
    /\ UNCHANGED <<now, hasCP, initial, lease, shutdown, parkToken,
                   bgIters, tdpc, sd, call, nExch, nCalls, nWrites, replaced,
                   xc, qLead, qAns, cvars, uq, dq, gd, wq>>

\* thread::sleep returns once the retry interval has passed.
BgRetrySleepDone ==
    /\ bgpc = "retry_sleep"
    /\ now >= bgDeadline
    /\ bgpc' = "top"
    /\ bgDeadline' = 0
    /\ UNCHANGED <<now, hasCP, initial, lease, shutdown, parkToken,
                   bgIters, tdpc, sd, call, inflight, nExch, nCalls,
                   nWrites, replaced, xc, qLead, qAns, cvars, uq, dq, gd, wq>>

\* ------------------------------------------- teardown (drop of the provider)
\* Dropping the provider needs exclusive ownership: no call is in progress.
\* Without a control plane there is no AutoRefreshHandle to drop.
DropWithoutTask ==
    /\ tdpc = "live"
    /\ ~hasCP
    /\ AllIdle
    /\ tdpc' = "joined"
    /\ UNCHANGED <<now, hasCP, initial, lease, shutdown, parkToken, bgpc,
                   bgDeadline, bgIters, sd, call, inflight, nExch, nCalls,
                   nWrites, replaced, xc, qLead, qAns, cvars, uq, dq, gd, wq>>

\* line 168: shutdown.store(true)
DropStoreShutdown ==
    /\ tdpc = "live"
    /\ hasCP
    /\ AllIdle
    /\ shutdown' = TRUE
    /\ sd' = Some([pos |-> bgpc, iters |-> bgIters, token |-> lease.token])
    /\ tdpc' = "stored"
    /\ UNCHANGED <<now, hasCP, initial, lease, parkToken, bgpc,
                   bgDeadline, bgIters, call, inflight, nExch, nCalls,
                   nWrites, replaced, xc, qLead, qAns, cvars, uq, dq, gd, wq>>

\* A mutant: a wake-up that reaches only a thread that is parked already.
DropUnparkOnlyParked ==
    /\ tdpc = "stored"
    /\ parkToken' = (bgpc = "parked")
    /\ tdpc' = "unparked"
    /\ UNCHANGED <<now, hasCP, initial, lease, shutdown, bgpc,
                   bgDeadline, bgIters, sd, call, inflight, nExch, nCalls,
                   nWrites, replaced, xc, qLead, qAns, cvars, uq, dq, gd, wq>>

\* line 170: handle.thread().unpark()
DropUnpark ==
    /\ tdpc = "stored"
    /\ parkToken' = TRUE
    /\ tdpc' = "unparked"
    /\ UNCHANGED <<now, hasCP, initial, lease, shutdown, bgpc,
                   bgDeadline, bgIters, sd, call, inflight, nExch, nCalls,
                   nWrites, replaced, xc, qLead, qAns, cvars, uq, dq, gd, wq>>

\* line 171: handle.join() returns when the thread has exited.
DropJoin ==
    /\ tdpc = "unparked"
    /\ bgpc = "exited"
    /\ tdpc' = "joined"
    /\ UNCHANGED <<now, hasCP, initial, lease, shutdown, parkToken, bgpc,
                   bgDeadline, bgIters, sd, call, inflight, nExch, nCalls,
                   nWrites, replaced, xc, qLead, qAns, cvars, uq, dq, gd, wq>>

\* ------------------------------------------------------------------ clock
\* The clock advances; past MaxTime only to end the retry sleep of a
\* background thread that has been told to shut down.
Tick ==
    /\ \E d \in TickSteps :
          /\ \/ now + d <= MaxTime
             \/ shutdown /\ bgpc = "retry_sleep" /\ now < bgDeadline
          /\ now' = now + d
    /\ UNCHANGED <<hasCP, initial, lease, shutdown, parkToken, bgpc,
                   bgDeadline, bgIters, tdpc, sd, call, inflight, nExch, nCalls,
                   nWrites, replaced, xc, qLead, qAns, cvars, uq, dq, gd, wq>>

Background ==
    \/ BgCheckTop
    \/ BgWait
    \/ BgUnparked
    \/ BgParkTimeout
    \/ BgSpuriousWake
    \/ BgCheckAfterWait
    \/ BgBeginExchange
    \/ BgExchangeOk
    \/ BgExchangeErr
    \/ BgRetrySleepDone

Teardown ==
    \/ DropWithoutTask
    \/ DropStoreShutdown
    \/ DropUnpark
    \/ DropJoin

\* One provider, its background thread and its owner, and two threads that
\* call current_token().
Next ==
    \/ \E c \in Callers :
          \/ CallCurrentToken(c)
          \/ CtRefreshOk(c)
          \/ CtRefreshErr(c)
          \/ CtReread(c)
          \/ CallReturned(c)
    \/ Background
    \/ Teardown
    \/ Tick

Spec == Init /\ [][Next]_vars

\* Scheduling: a thread that can take its next step takes it, an exchange in
\* flight returns, and the clock advances.  Nothing is assumed of the timeout
\* of park_timeout or of spurious wake-ups.
Fairness ==
    /\ WF_vars(BgCheckTop)
    /\ WF_vars(BgWait)
    /\ WF_vars(BgUnparked)
    /\ WF_vars(BgCheckAfterWait)
    /\ WF_vars(BgBeginExchange)
    /\ WF_vars(BgExchangeOk \/ BgExchangeErr)
    /\ WF_vars(BgRetrySleepDone)
    /\ WF_vars(DropUnpark)
    /\ WF_vars(DropJoin)
    /\ WF_vars(Tick)

SpecFair == Init /\ [][Next]_vars /\ Fairness

\* The same with one thread that calls current_token() and issue_scoped_token().
ScopedCallers == {1}

NextScoped ==
    \/ \E c \in ScopedCallers :
          \/ CallCurrentToken(c)
          \/ CallIssueScopedToken(c)
          \/ CtRefreshOk(c)
          \/ CtRefreshErr(c)
          \/ CtReread(c)
          \/ ScopedOk(c)
          \/ ScopedErr(c)
          \/ CallReturned(c)
    \/ Background
    \/ Teardown
    \/ Tick

SpecScoped == Init /\ [][NextScoped]_vars


\* ------------------------------------------- the loop over its full waits
\* The clock advances; past MaxTime only to end a wait of the background
\* thread (its park_timeout or its retry sleep).
LongTick ==
    /\ \E d \in TickSteps :
          /\ \/ now + d <= MaxTime
             \/ bgpc \in {"parked", "retry_sleep"} /\ now < bgDeadline
          /\ now' = now + d
    /\ UNCHANGED <<hasCP, initial, lease, shutdown, parkToken, bgpc,
                   bgDeadline, bgIters, tdpc, sd, call, inflight, nExch, nCalls,
                   nWrites, replaced, xc, qLead, qAns, cvars, uq, dq, gd, wq>>

\* line 183, the loop followed for more than one exchange.
BgLoopTop == BgCheckTopUpTo(MaxBgRounds)

\* The background thread whose park_timeout returns only when it is unparked
\* or when the timeout has passed.
BackgroundTimed ==
    \/ BgLoopTop
    \/ BgWait
    \/ BgUnparked
    \/ BgParkTimeout
    \/ BgCheckAfterWait
    \/ BgBeginExchange
    \/ BgExchangeOk
    \/ BgExchangeErr
    \/ BgRetrySleepDone

\* One provider, its background thread and its owner, and one thread that
\* calls current_token(), over the waits of the loop.
NextTimed ==
    \/ \E c \in ScopedCallers :
          \/ CallCurrentToken(c)
          \/ CtRefreshOk(c)
          \/ CtRefreshErr(c)
          \/ CtReread(c)
          \/ CallReturned(c)
    \/ BackgroundTimed
    \/ Teardown
    \/ LongTick

SpecTimed == Init /\ [][NextTimed]_vars

\* Scheduling: a thread that can take its next step takes it, an exchange in
\* flight returns, the clock advances, and park_timeout returns once its
\* timeout has passed.
FairnessTimed ==
    /\ WF_vars(BgLoopTop)
    /\ WF_vars(BgWait)
    /\ WF_vars(BgUnparked)
    /\ WF_vars(BgParkTimeout)
    /\ WF_vars(BgCheckAfterWait)
    /\ WF_vars(BgBeginExchange)
    /\ WF_vars(BgExchangeOk \/ BgExchangeErr)
    /\ WF_vars(BgRetrySleepDone)
    /\ WF_vars(DropUnpark)
    /\ WF_vars(DropJoin)
    /\ WF_vars(LongTick)
    /\ \A c \in ScopedCallers :
          /\ WF_vars(CtRefreshOk(c) \/ CtRefreshErr(c))
          /\ WF_vars(CtReread(c))

SpecTimedFair == Init /\ [][NextTimed]_vars /\ FairnessTimed

\* ------------------------------------------------- the renewal, on time
\* The clock advances only while the background thread waits (parked before
\* its timeout, or inside an exchange) or does not run: the steps of the
\* thread between its waits take no time.  Past MaxRenewTime it advances only
\* to the end of a wait of the thread.
PromptTick ==
    /\ \/ bgpc = "parked" /\ now < bgDeadline
       \/ bgpc \in {"exchanging", "exited", "none"}
    /\ \E d \in TickSteps :
          /\ \/ now + d <= MaxRenewTime
             \/ bgpc = "parked" /\ now < bgDeadline
          /\ now' = now + d
    /\ UNCHANGED <<hasCP, initial, lease, shutdown, parkToken, bgpc,
                   bgDeadline, bgIters, tdpc, sd, call, inflight, nExch, nCalls,
                   nWrites, replaced, xc, qLead, qAns, cvars, uq, dq, gd, wq>>

\* One provider that is not shut down, its background thread and one thread
\* that calls current_token(), with exchanges that succeed.
NextRenew ==
    \/ \E c \in ScopedCallers :
          \/ CallCurrentToken(c)
          \/ CtRefreshOk(c)
          \/ CtReread(c)
          \/ CallReturned(c)
    \/ BgLoopTop
    \/ BgWait
    \/ BgParkTimeout
    \/ BgSpuriousWake
    \/ BgCheckAfterWait
    \/ BgBeginExchange
    \/ BgExchangeOk
    \/ PromptTick

\* Scheduling: the background thread takes its next step, its exchange
\* returns, the clock advances, and park_timeout returns once its timeout has
\* passed.
FairnessRenew ==
    /\ WF_vars(BgLoopTop)
    /\ WF_vars(BgWait)
    /\ WF_vars(BgParkTimeout)
    /\ WF_vars(BgCheckAfterWait)
    /\ WF_vars(BgBeginExchange)
    /\ WF_vars(BgExchangeOk)
    /\ WF_vars(PromptTick)

SpecRenew == Init /\ [][NextRenew]_vars /\ FairnessRenew

\* ------------------------------------------------------ next_refresh_wait
\* next_refresh_wait on leases and clocks given in half seconds.
SubSecond == 2
WaitNows == {0, 1}
WaitExpiries == {0, 1, 119, 120, 121, 122, 123, 124, 125, 241, 250}
WaitLeases ==
    {NewLease(0, None, None, None, 0)}
    \cup {NewLease(0, None, Some(e), None, 0) : e \in WaitExpiries}
    \cup {NewLease(0, None, None, Some(ttl * SubSecond), c) :
             ttl \in {0, 60, 61, 120}, c \in {0, 1}}

\* next_refresh_wait(&lease, refresh_lead) is called at time t.
AskWait ==
    /\ wq = None
    /\ \E l \in WaitLeases, t \in WaitNows :
          wq' = Some([lease |-> l, now |-> t,
                      wait |-> next_refresh_wait_in(l, Lead * SubSecond, t,
                                                    SubSecond)])
    /\ UNCHANGED <<pvars, xc, qvars, cvars, uq, dq, gd>>

\* The background thread and the owner of one provider, and one call of
\* next_refresh_wait on its own.
NextWait ==
    \/ AskWait
    \/ Background
    \/ Teardown
    \/ Tick

SpecWait == Init /\ [][NextWait]_vars

\* ------------------------------------- ServiceTokenLease::should_refresh
QueryLeases ==
    {NewLease(0, None, e, t, c) :
        e \in {None, Some(0), Some(50), Some(100)},
        t \in {None, Some(0), Some(70)},
        c \in {0, 20}}
QueryTimes == {0, 30, 50, 100}
QueryLeads == {0, 10, 60}

\* A lease, a time and a lead; no provider is involved.
InitLease ==
    /\ now \in QueryTimes
    /\ lease \in QueryLeases
    /\ initial = lease
    /\ qLead \in QueryLeads
    /\ qAns = None
    /\ hasCP = FALSE
    /\ shutdown = FALSE
    /\ parkToken = FALSE
    /\ bgpc = "none"
    /\ bgDeadline = 0
    /\ bgIters = 0
    /\ tdpc = "live"
    /\ sd = None
    /\ call = [c \in Callers |-> IdleCaller]
    /\ inflight = {}
    /\ nExch = 0
    /\ nCalls = 0
    /\ nWrites = 0
    /\ replaced = {}
    /\ NoConnector
    /\ xc = XIdle

\* remaining_duration() and should_refresh(lead) are asked of the lease.
AskLease ==
    /\ qAns = None
    /\ qAns' = Some([remaining |-> remaining_duration(lease, now),
                     refresh |-> should_refresh(lease, qLead, now)])
    /\ UNCHANGED <<now, hasCP, initial, lease, shutdown, parkToken, bgpc,
                   bgDeadline, bgIters, tdpc, sd, call, inflight, nExch, nCalls,
                   nWrites, replaced, xc, qLead, cvars, uq, dq, gd, wq>>

SpecLease == InitLease /\ [][AskLease]_vars

\* ----------------------------------- ControlPlaneClient::exchange_token
Backoffs == {0, 100, 200}                   \* ControlPlaneClient.backoff, ms
Bodies == {Some("forbidden"), Some(""), None}  \* response.text(); None: Err

\* The results of exchange_token.  cause: the request whose transport error
\* is carried (0: the error comes from decoding a response).
XOk(response) ==
    Some([kind |-> "Ok", response |-> Some(response), text |-> "", cause |-> 0])
XErrHttp(cause) ==
    Some([kind |-> "Http", response |-> None, text |-> "", cause |-> cause])
XErrTokenExchange(text) ==
    Some([kind |-> "TokenExchange", response |-> None, text |-> text, cause |-> 0])

\* A call of exchange_token on a client with some retries and backoff.
InitExchange ==
    /\ \E r \in 0..MaxRetries, b \in Backoffs :
          xc = [XIdle EXCEPT !.pc = "send", !.retries = r, !.backoff = b]
    /\ now = 0
    /\ lease = NewLease(0, None, None, None, 0)
    /\ initial = lease
    /\ qLead = 0
    /\ qAns = None
    /\ hasCP = TRUE
    /\ shutdown = FALSE
    /\ parkToken = FALSE
    /\ bgpc = "top"
    /\ bgDeadline = 0
    /\ bgIters = 0
    /\ tdpc = "live"
    /\ sd = None
    /\ call = [c \in Callers |-> IdleCaller]
    /\ inflight = {}
    /\ nExch = 0
    /\ nCalls = 0
    /\ nWrites = 0
    /\ replaced = {}
    /\ NoConnector

\* lines 77-86: the request is sent, the status is a success and the body
\* parses: Ok(response).
XSendOk ==
    /\ xc.pc = "send"
    /\ \E ttl \in TTLs :
          xc' = [xc EXCEPT !.pc = "done", !.sent = xc.sent + 1,
                           !.got = Some([success |-> TRUE, body |-> None]),
                           !.result = XOk(Response(1, <<>>, ttl))]
    /\ UNCHANGED <<pvars, qvars, cvars, uq, dq, gd, wq>>

\* lines 85-86: the status is a success and the body does not parse:
\* response.json() fails with a reqwest error, which becomes Http.
XSendUndecodable ==
    /\ xc.pc = "send"
    /\ xc' = [xc EXCEPT !.pc = "done", !.sent = xc.sent + 1,
                        !.got = Some([success |-> TRUE, body |-> None]),
                        !.result = XErrHttp(0)]
    /\ UNCHANGED <<pvars, qvars, cvars, uq, dq, gd, wq>>

\* A mutant: a rejection is handled like a transport failure.
XSendRejectedRetried ==
    /\ xc.pc = "send"
    /\ \E body \in Bodies :
          LET attempts == xc.attempts + 1
              text == IF IsSome(body) THEN Unwrap(body) ELSE "unknown error"
          IN  IF attempts > xc.retries
              THEN xc' = [xc EXCEPT !.pc = "done", !.sent = xc.sent + 1,
                                    !.attempts = attempts,
                                    !.rejects = xc.rejects + 1,
                                    !.got = Some([success |-> FALSE, body |-> body]),
                                    !.result = XErrTokenExchange(text)]
              ELSE xc' = [xc EXCEPT !.pc = "sleep", !.sent = xc.sent + 1,
                                    !.attempts = attempts,
                                    !.rejects = xc.rejects + 1,
                                    !.got = Some([success |-> FALSE, body |-> body]),
                                    !.slept = Append(xc.slept, xc.backoff * attempts)]
    /\ UNCHANGED <<pvars, qvars, cvars, uq, dq, gd, wq>>

\* lines 87-90: the status is not a success: Err(TokenExchange(text)), the
\* text being the body, or "unknown error" when the body cannot be read.
XSendRejected ==
    /\ xc.pc = "send"
    /\ \E body \in Bodies :
          LET text == IF IsSome(body) THEN Unwrap(body) ELSE "unknown error"
          IN  xc' = [xc EXCEPT !.pc = "done", !.sent = xc.sent + 1,
                               !.rejects = xc.rejects + 1,
                               !.got = Some([success |-> FALSE, body |-> body]),
                               !.result = XErrTokenExchange(text)]
    /\ UNCHANGED <<pvars, qvars, cvars, uq, dq, gd, wq>>

\* A mutant: the retries are exhausted one attempt early.
XSendFailedOffByOne ==
    /\ xc.pc = "send"
    /\ LET attempts == xc.attempts + 1
       IN  IF attempts >= xc.retries
           THEN xc' = [xc EXCEPT !.pc = "done", !.sent = xc.sent + 1,
                                 !.fails = xc.fails + 1,
                                 !.attempts = attempts,
                                 !.result = XErrHttp(xc.sent + 1)]
           ELSE xc' = [xc EXCEPT !.pc = "sleep", !.sent = xc.sent + 1,
                                 !.fails = xc.fails + 1,
                                 !.attempts = attempts,
                                 !.slept = Append(xc.slept, xc.backoff * attempts)]
    /\ UNCHANGED <<pvars, qvars, cvars, uq, dq, gd, wq>>

\* lines 92-99: send() fails: attempts += 1; past the retries the error is
\* returned, otherwise sleep(backoff * attempts) begins.
XSendFailed ==
    /\ xc.pc = "send"
    /\ LET attempts == xc.attempts + 1
       IN  IF attempts > xc.retries
           THEN xc' = [xc EXCEPT !.pc = "done", !.sent = xc.sent + 1,
                                 !.fails = xc.fails + 1,
                                 !.attempts = attempts,
                                 !.result = XErrHttp(xc.sent + 1)]
           ELSE xc' = [xc EXCEPT !.pc = "sleep", !.sent = xc.sent + 1,
                                 !.fails = xc.fails + 1,
                                 !.attempts = attempts,
                                 !.slept = Append(xc.slept, xc.backoff * attempts)]
    /\ UNCHANGED <<pvars, qvars, cvars, uq, dq, gd, wq>>

\* line 98: sleep(delay) returns and the loop sends again.
XSleepDone ==
    /\ xc.pc = "sleep"
    /\ xc' = [xc EXCEPT !.pc = "send"]
    /\ UNCHANGED <<pvars, qvars, cvars, uq, dq, gd, wq>>

NextExchange ==
    \/ XSendOk
    \/ XSendUndecodable
    \/ XSendRejected
    \/ XSendFailed
    \/ XSleepDone

SpecExchange == InitExchange /\ [][NextExchange]_vars

\* ------------------------------------------------- DbConnectorClient (connector.rs)
WRITE_TOKEN_SAFETY_SECONDS == 5

WriteTTLs == {0, 8, 120}              \* expires_in_seconds of a db-write response
Intents == {"read", "write"}          \* DbConnectorIntent
IoErrors == {"connect", "write", "read"}  \* where Endpoint.send can fail

\* u64::saturating_sub
saturating_sub(a, b) == IF a >= b THEN a - b ELSE 0

\* DbConnectorIntent::requires_write_scope
requires_write_scope(intent) == intent = "write"

\* ModuleTokenExchangeRequest::db_write()
db_write == [scopes |-> <<"db:write">>, reason |-> Some("db_connector")]

CachedToken(token, expires_at) == [token |-> token, expires_at |-> expires_at]

\* A mutant: the safety margin is subtracted and not used as a floor.
write_token_expires_at_no_floor(response, t) ==
    t + saturating_sub(response.expires_in_seconds, WRITE_TOKEN_SAFETY_SECONDS)

\* fetch_write_token, lines 291-294: the expiry of the entry made of a response
\* received at time t.
write_token_expires_at(response, t) ==
    LET ttl == saturating_sub(response.expires_in_seconds, WRITE_TOKEN_SAFETY_SECONDS)
    IN  t + Max(ttl, WRITE_TOKEN_SAFETY_SECONDS)

\* A mutant: a cached entry is reused whatever its expiry.
cache_hit_unexpiring(cached, t) == IsSome(cached)

\* fetch_write_token, lines 280-284: the cached entry is reused.
cache_hit(cached, t) == IsSome(cached) /\ Unwrap(cached).expires_at > t

\* DbConnectorResponse::ok and ::err
DbConnectorResponse_ok(results) ==
    [ok |-> TRUE, results |-> Some(results), error |-> None]
DbConnectorResponse_err(message) ==
    [ok |-> FALSE, results |-> None, error |-> Some(message)]

\* A member of a JSON object: absent, null, or a value.
JAbsent == <<>>
JNull == <<"null">>
JValue(v) == <<"value", v>>
IsJValue(m) == Len(m) = 2

\* Serialize for DbConnectorResponse: results and error are skipped when None.
to_vec(response) ==
    Some([ok |-> JValue(response.ok),
          results |-> IF IsSome(response.results)
                      THEN JValue(Unwrap(response.results)) ELSE JAbsent,
          error |-> IF IsSome(response.error)
                    THEN JValue(Unwrap(response.error)) ELSE JAbsent])

\* Deserialize for DbConnectorResponse (serde_json::from_slice, line 268):
\* `ok` is required and must be a bool; an Option member that is absent or
\* null becomes None.  None: the bytes are rejected.
from_slice(bytes) ==
    IF ~IsSome(bytes) THEN None
    ELSE LET o == Unwrap(bytes)
         IN  IF ~IsJValue(o.ok) THEN None
             ELSE Some([ok |-> o.ok[2],
                        results |-> IF IsJValue(o.results)
                                    THEN Some(o.results[2]) ELSE None,
                        error |-> IF IsJValue(o.error)
                                  THEN Some(o.error[2]) ELSE None])

ResultLists == {<<>>, <<"rows">>}     \* Vec<DbConnectorResultView>
Messages == {"denied"}

\* What the broker may answer: what a DbConnectorResponse built by ok() or
\* err() serializes to, other JSON objects with these members, or bytes that
\* are no JSON object at all (None).
BrokerBytes ==
    {to_vec(DbConnectorResponse_ok(r)) : r \in ResultLists}
    \cup {to_vec(DbConnectorResponse_err(m)) : m \in Messages}
    \cup {Some([ok |-> JValue(TRUE), results |-> JAbsent, error |-> JAbsent]),
          Some([ok |-> JValue(FALSE), results |-> JNull, error |-> JNull]),
          Some([ok |-> JValue(TRUE), results |-> JValue(<<>>),
                error |-> JValue("denied")]),
          Some([ok |-> JAbsent, results |-> JValue(<<>>), error |-> JAbsent]),
          None}

\* A connector client alone, with or without a control plane.
InitConnector ==
    /\ now = 0
    /\ hasCP \in BOOLEAN
    /\ lease = NewLease(0, None, None, None, 0)
    /\ initial = lease
    /\ shutdown = FALSE
    /\ parkToken = FALSE
    /\ bgpc = "none"
    /\ bgDeadline = 0
    /\ bgIters = 0
    /\ tdpc = "live"
    /\ sd = None
    /\ call = [c \in Callers |-> IdleCaller]
    /\ inflight = {}
    /\ nExch = 0
    /\ nCalls = 0
    /\ nWrites = 0
    /\ replaced = {}
    /\ xc = XIdle
    /\ qLead = 0
    /\ qAns = None
    /\ client = [default_token |-> 0, control_plane |-> hasCP,
                 cached_write_token |-> None]
    /\ exec = [c \in ConnCallers |-> IdleExec]
    /\ uq = None
    /\ dq = None
    /\ gd = NoGuards
    /\ wq = None

\* A provider and a connector client built from the same ModuleEnvironment:
\* the same service token, the same control plane.
InitModule ==
    /\ now = 0
    /\ hasCP \in BOOLEAN
    /\ initial \in InitialLeases
    /\ lease = initial
    /\ shutdown = FALSE
    /\ parkToken = FALSE
    /\ bgpc = IF hasCP THEN "top" ELSE "none"
    /\ bgDeadline = 0
    /\ bgIters = 0
    /\ tdpc = "live"
    /\ sd = None
    /\ call = [c \in Callers |-> IdleCaller]
    /\ inflight = {}
    /\ nExch = 0
    /\ nCalls = 0
    /\ nWrites = 0
    /\ replaced = {}
    /\ xc = XIdle
    /\ qLead = 0
    /\ qAns = None
    /\ client = [default_token |-> initial.token, control_plane |-> hasCP,
                 cached_write_token |-> None]
    /\ exec = [c \in ConnCallers |-> IdleExec]
    /\ uq = None
    /\ dq = None
    /\ gd = NoGuards
    /\ wq = None

\* The execute call of caller c ends with the record r as its result.
ExecReturn(c, r) ==
    exec' = [exec EXCEPT ![c].pc = "returned", ![c].cur = r]

\* execute, lines 259-267: the envelope carries the token and the send begins.
ExecSend(c, r, token) ==
    exec' = [exec EXCEPT ![c].pc = "sending",
                         ![c].cur = [r EXCEPT !.token = Some(token)]]

\* A mutant: without a control plane a write falls back to the default token.
fetch_write_token_fallback(c, r) ==
    LET cached == client.cached_write_token
        r1 == [r EXCEPT !.found = cached, !.at = now]
    IN  IF cache_hit(cached, now)
        THEN /\ ExecSend(c, r1, Unwrap(cached).token)
             /\ UNCHANGED <<inflight, nExch>>
        ELSE IF ~client.control_plane
        THEN /\ ExecSend(c, r1, client.default_token)
             /\ UNCHANGED <<inflight, nExch>>
        ELSE /\ exec' = [exec EXCEPT ![c].pc = "exchanging",
                            ![c].cur = [r1 EXCEPT !.nex = r1.nex + 1,
                                           !.bearer = Some(client.default_token)]]
             /\ inflight' = inflight \cup
                   {Exchange(nExch + 1, c, "write", client.default_token, db_write)}
             /\ nExch' = nExch + 1

\* fetch_write_token, lines 280-290: a valid cached entry is returned; else
\* without a control plane the call fails, and with one the exchange begins
\* with the client's default token as bearer.
fetch_write_token(c, r) ==
    LET cached == client.cached_write_token
        r1 == [r EXCEPT !.found = cached, !.at = now]
    IN  IF cache_hit(cached, now)
        THEN /\ ExecSend(c, r1, Unwrap(cached).token)
             /\ UNCHANGED <<inflight, nExch>>
        ELSE IF ~client.control_plane
        THEN /\ ExecReturn(c, [r1 EXCEPT !.kind = "err",
                                         !.err = "ControlPlaneMissing"])
             /\ UNCHANGED <<inflight, nExch>>
        ELSE /\ exec' = [exec EXCEPT ![c].pc = "exchanging",
                            ![c].cur = [r1 EXCEPT !.nex = r1.nex + 1,
                                           !.bearer = Some(client.default_token)]]
             /\ inflight' = inflight \cup
                   {Exchange(nExch + 1, c, "write", client.default_token, db_write)}
             /\ nExch' = nExch + 1

\* token_for_intent, lines 272-277
token_for_intent(c, r) ==
    IF requires_write_scope(r.intent)
    THEN fetch_write_token(c, r)
    ELSE /\ ExecSend(c, r, client.default_token)
         /\ UNCHANGED <<inflight, nExch>>

\* A caller thread calls execute(command, intent, ..): line 258.
CallExecute(c) ==
    /\ exec[c].pc = "idle"
    /\ nCalls < MaxCalls
    /\ nCalls' = nCalls + 1
    /\ \E intent \in Intents :
          token_for_intent(c, [NoExec EXCEPT !.intent = intent,
                                             !.ptok = Some(lease.token)])
    /\ UNCHANGED <<now, hasCP, initial, lease, shutdown, parkToken, bgpc,
                   bgDeadline, bgIters, tdpc, sd, call, nWrites, replaced,
                   xc, qLead, qAns, client, uq, dq, gd, wq>>

\* fetch_write_token, lines 289-300, on Ok: the entry is stored and the token
\* of the response is the credential.
WriteExchangeOk(c) ==
    /\ exec[c].pc = "exchanging"
    /\ \E ttl \in WriteTTLs :
          LET x == TheExchange(c, "write")
              response == Response(x.id, x.req.scopes, ttl)
              entry == CachedToken(response.token,
                                   write_token_expires_at(response, now))
          IN  /\ inflight' = inflight \ {x}
              /\ client' = [client EXCEPT !.cached_write_token = Some(entry)]
              /\ ExecSend(c, [exec[c].cur EXCEPT !.own = Some(response.token),
                                                 !.ttl = Some(ttl),
                                                 !.stored = Some(entry)],
                          response.token)
    /\ UNCHANGED <<now, hasCP, initial, lease, shutdown, parkToken, bgpc,
                   bgDeadline, bgIters, tdpc, sd, call, nExch, nCalls, nWrites,
                   replaced, xc, qLead, qAns, uq, dq, gd, wq>>

\* A mutant: a failed exchange empties the cache.
WriteExchangeErrClears(c) ==
    /\ exec[c].pc = "exchanging"
    /\ \E e \in ErrKinds :
          /\ inflight' = inflight \ {TheExchange(c, "write")}
          /\ client' = [client EXCEPT !.cached_write_token = None]
          /\ ExecReturn(c, [exec[c].cur EXCEPT !.kind = "err", !.err = e])
    /\ UNCHANGED <<now, hasCP, initial, lease, shutdown, parkToken, bgpc,
                   bgDeadline, bgIters, tdpc, sd, call, nExch, nCalls, nWrites,
                   replaced, xc, qLead, qAns, uq, dq, gd, wq>>

\* fetch_write_token, line 290, on Err: `?` in lines 290 and 258 returns the
\* error to the caller of execute.
WriteExchangeErr(c) ==
    /\ exec[c].pc = "exchanging"
    /\ \E e \in ErrKinds :
          /\ inflight' = inflight \ {TheExchange(c, "write")}
          /\ ExecReturn(c, [exec[c].cur EXCEPT !.kind = "err", !.err = e])
    /\ UNCHANGED <<now, hasCP, initial, lease, shutdown, parkToken, bgpc,
                   bgDeadline, bgIters, tdpc, sd, call, nExch, nCalls, nWrites,
                   replaced, xc, qLead, qAns, client, uq, dq, gd, wq>>

\* execute, lines 267-269: Endpoint.send returns the broker's bytes, which
\* are deserialized; the response, or the deserialization error, is returned.
SendOk(c) ==
    /\ exec[c].pc = "sending"
    /\ \E bytes \in BrokerBytes :
          LET r == [exec[c].cur EXCEPT !.sends = exec[c].cur.sends + 1,
                                       !.bytes = Some(bytes)]
              response == from_slice(bytes)
          IN  IF IsSome(response)
              THEN ExecReturn(c, [r EXCEPT !.kind = "ok", !.response = response])
              ELSE ExecReturn(c, [r EXCEPT !.kind = "err", !.err = "Serialization"])
    /\ UNCHANGED <<pvars, xc, qvars, client, uq, dq, gd, wq>>

\* A mutant: a send that failed is tried once more.
SendErrRetried(c) ==
    /\ exec[c].pc = "sending"
    /\ \E e \in IoErrors :
          LET r == [exec[c].cur EXCEPT !.sends = exec[c].cur.sends + 1]
          IN  IF r.sends < 2
              THEN exec' = [exec EXCEPT ![c].cur = r]
              ELSE ExecReturn(c, [r EXCEPT !.kind = "err", !.err = "ConnectorIo"])
    /\ UNCHANGED <<pvars, xc, qvars, client, uq, dq, gd, wq>>

\* execute, line 267, Endpoint.send lines 65-89: connect, write_all or
\* read_to_end fails; `?` returns the io error to the caller.
SendErr(c) ==
    /\ exec[c].pc = "sending"
    /\ \E e \in IoErrors :
          ExecReturn(c, [exec[c].cur EXCEPT !.sends = exec[c].cur.sends + 1,
                                            !.kind = "err", !.err = "ConnectorIo"])
    /\ UNCHANGED <<pvars, xc, qvars, client, uq, dq, gd, wq>>

\* The caller goes on with the result of execute.
ExecReturned(c) ==
    /\ exec[c].pc = "returned"
    /\ exec' = [exec EXCEPT ![c] = IdleExec]
    /\ UNCHANGED <<pvars, xc, qvars, client, uq, dq, gd, wq>>

\* The connector client, two threads that call execute(), and the clock.
NextConnector ==
    \/ \E c \in ConnCallers :
          \/ CallExecute(c)
          \/ WriteExchangeOk(c)
          \/ WriteExchangeErr(c)
          \/ SendOk(c)
          \/ SendErr(c)
          \/ ExecReturned(c)
    \/ Tick

SpecConnector == InitConnector /\ [][NextConnector]_vars

\* One module: the provider with its background thread, its owner and a
\* thread that calls issue_scoped_token(), the connector client and a thread
\* that calls execute(), and the clock.
ModuleCallers == {1}

NextModule ==
    \/ \E c \in ModuleCallers :
          \/ CallExecute(c)
          \/ WriteExchangeOk(c)
          \/ WriteExchangeErr(c)
          \/ SendOk(c)
          \/ SendErr(c)
          \/ ExecReturned(c)
    \/ \E c \in ScopedCallers :
          \/ CallIssueScopedToken(c)
          \/ CtRefreshOk(c)
          \/ CtRefreshErr(c)
          \/ CtReread(c)
          \/ ScopedOk(c)
          \/ ScopedErr(c)
          \/ CallReturned(c)
    \/ Background
    \/ Teardown
    \/ Tick

SpecModule == InitModule /\ [][NextModule]_vars

\* ------------------------------------------ ConnectorEndpoint::from_uri
\* A string is the sequence of its characters.
IpcPrefix == <<"i", "p", "c", ":", "/", "/">>
TcpPrefix == <<"t", "c", "p", ":", "/", "/">>

\* char::is_whitespace
is_whitespace(ch) == ch \in {" ", "\t", "\n"}

\* str::strip_prefix
strip_prefix(str, prefix) ==
    IF Len(str) >= Len(prefix) /\ SubSeq(str, 1, Len(prefix)) = prefix
    THEN Some(SubSeq(str, Len(prefix) + 1, Len(str)))
    ELSE None

\* str::trim_start, str::trim_end, str::trim
RECURSIVE trim_start(_)
trim_start(str) ==
    IF str # <<>> /\ is_whitespace(Head(str)) THEN trim_start(Tail(str)) ELSE str

RECURSIVE trim_end(_)
trim_end(str) ==
    IF str # <<>> /\ is_whitespace(str[Len(str)])
    THEN trim_end(SubSeq(str, 1, Len(str) - 1))
    ELSE str

trim(str) == trim_end(trim_start(str))

is_empty(str) == Len(str) = 0

InvalidConnectorUri(text) ==
    [kind |-> "Err", error |-> "InvalidConnectorUri", text |-> text,
     endpoint |-> None]
Ipc(path) ==
    [kind |-> "Ok", error |-> "none", text |-> <<>>,
     endpoint |-> Some([variant |-> "Ipc", value |-> path])]
Tcp(addr) ==
    [kind |-> "Ok", error |-> "none", text |-> <<>>,
     endpoint |-> Some([variant |-> "Tcp", value |-> addr])]

\* A mutant: the remainder is taken as it is.
from_uri_untrimmed(unix, uri) ==
    LET ipc == strip_prefix(uri, IpcPrefix)
        tcp == strip_prefix(uri, TcpPrefix)
    IN  IF IsSome(ipc)
        THEN IF unix
             THEN IF is_empty(Unwrap(ipc))
                  THEN InvalidConnectorUri(uri)
                  ELSE Ipc(Unwrap(ipc))
             ELSE InvalidConnectorUri(<<"ipc protocol is not supported on this platform">>)
        ELSE IF IsSome(tcp)
        THEN IF is_empty(Unwrap(tcp))
             THEN InvalidConnectorUri(uri)
             ELSE Tcp(Unwrap(tcp))
        ELSE InvalidConnectorUri(uri)

\* ConnectorEndpoint::from_uri, lines 36-63, in a build with cfg(unix) or
\* with cfg(not(unix)).
from_uri(unix, uri) ==
    LET ipc == strip_prefix(uri, IpcPrefix)
        tcp == strip_prefix(uri, TcpPrefix)
    IN  IF IsSome(ipc)
        THEN IF unix
             THEN IF is_empty(trim(Unwrap(ipc)))
                  THEN InvalidConnectorUri(uri)
                  ELSE Ipc(trim(Unwrap(ipc)))
             ELSE InvalidConnectorUri(<<"ipc protocol is not supported on this platform">>)
        ELSE IF IsSome(tcp)
        THEN IF is_empty(trim(Unwrap(tcp)))
             THEN InvalidConnectorUri(uri)
             ELSE Tcp(trim(Unwrap(tcp)))
        ELSE InvalidConnectorUri(uri)

\* The URIs from_uri is called with: a beginning and a remainder.
UriHeads ==
    {IpcPrefix, TcpPrefix,
     <<"f", "t", "p", ":", "/", "/">>,
     <<"I", "P", "C", ":", "/", "/">>,
     <<" ", "t", "c", "p", ":", "/", "/">>,
     <<"i", "p", "c", ":", "/">>,
     <<>>}
UriRests ==
    {<<>>, <<" ">>, <<"\t", " ">>, <<"a">>, <<" ", "a">>, <<"a", " ">>,
     <<" ", "a", " ", "b", "\t">>, <<"h", "o", "s", "t">>}

\* One call of from_uri on some platform; nothing else is part of the run.
InitUri ==
    /\ \E unix \in BOOLEAN, h \in UriHeads, r \in UriRests :
          uq = Some([unix |-> unix, uri |-> h \o r, result |-> None])
    /\ now = 0
    /\ hasCP = FALSE
    /\ lease = NewLease(0, None, None, None, 0)
    /\ initial = lease
    /\ shutdown = FALSE
    /\ parkToken = FALSE
    /\ bgpc = "none"
    /\ bgDeadline = 0
    /\ bgIters = 0
    /\ tdpc = "live"
    /\ sd = None
    /\ call = [c \in Callers |-> IdleCaller]
    /\ inflight = {}
    /\ nExch = 0
    /\ nCalls = 0
    /\ nWrites = 0
    /\ replaced = {}
    /\ xc = XIdle
    /\ qLead = 0
    /\ qAns = None
    /\ client = [default_token |-> 0, control_plane |-> FALSE,
                 cached_write_token |-> None]
    /\ exec = [c \in ConnCallers |-> IdleExec]
    /\ dq = None
    /\ gd = NoGuards
    /\ wq = None

\* from_uri(uri) is called and returns.
ParseUri ==
    /\ IsSome(uq)
    /\ Unwrap(uq).result = None
    /\ uq' = Some([Unwrap(uq) EXCEPT
                      !.result = Some(from_uri(Unwrap(uq).unix, Unwrap(uq).uri))])
    /\ UNCHANGED <<pvars, xc, qvars, cvars, dq, gd, wq>>

SpecUri == InitUri /\ [][ParseUri]_vars

\* ------------------------------------------- DbConnectorIntent::detect
UpperCase == <<"A", "B", "C", "D", "E", "F", "G", "H", "I", "J", "K", "L", "M", "N",
    "O", "P", "Q", "R", "S", "T", "U", "V", "W", "X", "Y", "Z">>
LowerCase == <<"a", "b", "c", "d", "e", "f", "g", "h", "i", "j", "k", "l", "m", "n",
    "o", "p", "q", "r", "s", "t", "u", "v", "w", "x", "y", "z">>

\* char::to_ascii_lowercase
to_ascii_lowercase_char(ch) ==
    IF \E i \in 1..Len(UpperCase) : UpperCase[i] = ch
    THEN LowerCase[CHOOSE i \in 1..Len(UpperCase) : UpperCase[i] = ch]
    ELSE ch

\* str::to_ascii_lowercase
to_ascii_lowercase(str) == [i \in 1..Len(str) |-> to_ascii_lowercase_char(str[i])]

\* str::split_whitespace().next(): the first maximal run of characters that
\* are not whitespace, None when there is none.
RECURSIVE first_word_from(_, _)
first_word_from(str, word) ==
    IF str = <<>> \/ is_whitespace(Head(str))
    THEN word
    ELSE first_word_from(Tail(str), Append(word, Head(str)))

split_whitespace_next(str) ==
    LET rest == trim_start(str)
    IN  IF rest = <<>> THEN None ELSE Some(first_word_from(rest, <<>>))

ReadKeywords ==
    {<<"s", "e", "l", "e", "c", "t">>,
     <<"s", "h", "o", "w">>,
     <<"d", "e", "s", "c", "r", "i", "b", "e">>,
     <<"w", "i", "t", "h">>,
     <<"e", "x", "p", "l", "a", "i", "n">>}

\* A mutant: the keyword is compared as it is written.
detect_case_sensitive(statement) ==
    LET word == split_whitespace_next(trim_start(statement))
        keyword == IF IsSome(word) THEN Unwrap(word) ELSE <<>>
    IN  IF keyword \in ReadKeywords THEN "read" ELSE "write"

\* DbConnectorIntent::detect, lines 169-180
detect(statement) ==
    LET word == split_whitespace_next(trim_start(statement))
        keyword == IF IsSome(word) THEN to_ascii_lowercase(Unwrap(word)) ELSE <<>>
    IN  IF keyword \in ReadKeywords THEN "read" ELSE "write"

\* The statements detect is called with: whitespace, a word, a remainder.
StatementLeads == {<<>>, <<" ">>, <<"\n", "\t">>}
StatementWords ==
    {<<"s", "e", "l", "e", "c", "t">>,
     <<"S", "E", "L", "E", "C", "T">>,
     <<"S", "e", "L", "e", "C", "t">>,
     <<"s", "h", "o", "w">>,
     <<"S", "h", "o", "w">>,
     <<"d", "e", "s", "c", "r", "i", "b", "e">>,
     <<"D", "E", "S", "C", "R", "I", "B", "E">>,
     <<"w", "i", "t", "h">>,
     <<"W", "I", "T", "H">>,
     <<"e", "x", "p", "l", "a", "i", "n">>,
     <<"E", "x", "p", "l", "a", "i", "n">>,
     <<"i", "n", "s", "e", "r", "t">>,
     <<"u", "p", "d", "a", "t", "e">>,
     <<"s", "e", "l", "e", "c", "t", "s">>,
     <<"s", "e", "l">>,
     <<"s", "e", "l", "e", "c", "t", "*">>,
     <<"(", "s", "e", "l", "e", "c", "t">>,
     <<"w", "i", "t", "h", ",">>,
     <<>>}
StatementRests == {<<>>, <<" ", "x">>, <<"\t", "1", " ">>, <<";">>}

\* One call of detect; nothing else is part of the run.
InitDetect ==
    /\ \E l \in StatementLeads, w \in StatementWords, r \in StatementRests :
          dq = Some([statement |-> l \o w \o r, result |-> None])
    /\ uq = None
    /\ now = 0
    /\ hasCP = FALSE
    /\ lease = NewLease(0, None, None, None, 0)
    /\ initial = lease
    /\ shutdown = FALSE
    /\ parkToken = FALSE
    /\ bgpc = "none"
    /\ bgDeadline = 0
    /\ bgIters = 0
    /\ tdpc = "live"
    /\ sd = None
    /\ call = [c \in Callers |-> IdleCaller]
    /\ inflight = {}
    /\ nExch = 0
    /\ nCalls = 0
    /\ nWrites = 0
    /\ replaced = {}
    /\ xc = XIdle
    /\ qLead = 0
    /\ qAns = None
    /\ client = [default_token |-> 0, control_plane |-> FALSE,
                 cached_write_token |-> None]
    /\ exec = [c \in ConnCallers |-> IdleExec]
    /\ gd = NoGuards
    /\ wq = None

\* detect(statement) is called and returns.
DetectIntent ==
    /\ IsSome(dq)
    /\ Unwrap(dq).result = None
    /\ dq' = Some([Unwrap(dq) EXCEPT !.result = Some(detect(Unwrap(dq).statement))])
    /\ UNCHANGED <<pvars, xc, qvars, cvars, uq, gd, wq>>

SpecDetect == InitDetect /\ [][DetectIntent]_vars

\* ------------------------------------- the guards, lock by lock and unlock by unlock
\* lease.lock() / cached_write_token.lock(): thread t gets the guard when it
\* is free and goes on at `to`.
LockLease(t, from, to) ==
    /\ gd.pc[t] = from
    /\ gd.lease_guard = "free"
    /\ gd' = [gd EXCEPT !.lease_guard = t, !.pc[t] = to]
    /\ UNCHANGED <<pvars, xc, qvars, cvars, uq, dq, wq>>

LockCache(t, from, to) ==
    /\ gd.pc[t] = from
    /\ gd.cache_guard = "free"
    /\ gd' = [gd EXCEPT !.cache_guard = t, !.pc[t] = to]
    /\ UNCHANGED <<pvars, xc, qvars, cvars, uq, dq, wq>>

\* The guard goes out of scope (end of the block or statement, or a return).
UnlockLease(t, from, to) ==
    /\ gd.pc[t] = from
    /\ gd.lease_guard = t
    /\ gd' = [gd EXCEPT !.lease_guard = "free", !.pc[t] = to]
    /\ UNCHANGED <<pvars, xc, qvars, cvars, uq, dq, wq>>

UnlockCache(t, from, to) ==
    /\ gd.pc[t] = from
    /\ gd.cache_guard = t
    /\ gd' = [gd EXCEPT !.cache_guard = "free", !.pc[t] = to]
    /\ UNCHANGED <<pvars, xc, qvars, cvars, uq, dq, wq>>

\* exchange_token is called: the thread is inside network I/O until it returns.
EnterExchange(t, from) ==
    /\ gd.pc[t] = from
    /\ gd' = [gd EXCEPT !.io = gd.io \cup {t}, !.pc[t] = "exchanging"]
    /\ UNCHANGED <<pvars, xc, qvars, cvars, uq, dq, wq>>

LeaveExchange(t, to) ==
    /\ gd.pc[t] = "exchanging"
    /\ t \in gd.io
    /\ gd' = [gd EXCEPT !.io = gd.io \ {t}, !.pc[t] = to]
    /\ UNCHANGED <<pvars, xc, qvars, cvars, uq, dq, wq>>

\* A mutant: the guard taken for the bearer is kept for the exchange.
GBgBearerKeepGuard ==
    /\ gd.pc["bg"] = "bearer_locked"
    /\ gd' = [gd EXCEPT !.pc["bg"] = "call"]
    /\ UNCHANGED <<pvars, xc, qvars, cvars, uq, dq, wq>>

\* run_auto_refresh_loop, line 195: the end of the block
\* { lease.lock().unwrap().token.clone() }.
GBgBearerUnlock == UnlockLease("bg", "bearer_locked", "call")

\* run_auto_refresh_loop and next_refresh_wait.
BgGuardSteps ==
       \* next_refresh_wait locks (line 217) and unlocks (228); then the wait
    \/ LockLease("bg", "top", "wait_locked")
    \/ UnlockLease("bg", "wait_locked", "bearer")
       \* line 195: the bearer is read under the guard
    \/ LockLease("bg", "bearer", "bearer_locked")
    \/ GBgBearerUnlock
       \* lines 196-202: client.exchange_token(..)
    \/ EnterExchange("bg", "call")
       \* line 203, Ok(response), and line 207, Err(_), the sleep and the
       \* next iteration
    \/ LeaveExchange("bg", "store")
    \/ LeaveExchange("bg", "top")
       \* lines 204-206: the guard is taken, the lease assigned, the arm ends
    \/ LockLease("bg", "store", "store_locked")
    \/ UnlockLease("bg", "store_locked", "top")

\* current_token with a control plane, and exchange_default_token.
CtGuardSteps(t) ==
       \* lines 108-115: the check under the guard; the block ends with a
       \* return (line 113) or with the bearer (111)
    \/ LockLease(t, "idle", "check_locked")
    \/ UnlockLease(t, "check_locked", "idle")
    \/ UnlockLease(t, "check_locked", "call")
       \* exchange_default_token, lines 245-251, Ok or Err (`?`)
    \/ EnterExchange(t, "call")
    \/ LeaveExchange(t, "store")
    \/ LeaveExchange(t, "idle")
       \* lines 252-254
    \/ LockLease(t, "store", "store_locked")
    \/ UnlockLease(t, "store_locked", "reread")
       \* line 119: Ok(self.lease.lock().unwrap().token.clone())
    \/ LockLease(t, "reread", "reread_locked")
    \/ UnlockLease(t, "reread_locked", "idle")

\* fetch_write_token.
WtGuardSteps(t) ==
       \* lines 280-284: the look at the cache under its guard; the statement
       \* ends with a return (line 282) or falls through
    \/ LockCache(t, "idle", "look_locked")
    \/ UnlockCache(t, "look_locked", "idle")
    \/ UnlockCache(t, "look_locked", "call")
       \* lines 285-288: without a control plane the call returns
    \/ /\ gd.pc[t] = "call"
       /\ gd' = [gd EXCEPT !.pc[t] = "idle"]
       /\ UNCHANGED <<pvars, xc, qvars, cvars, uq, dq, wq>>
       \* lines 289-290: control.exchange_token(..)?, Ok or Err
    \/ EnterExchange(t, "call")
    \/ LeaveExchange(t, "store")
    \/ LeaveExchange(t, "idle")
       \* lines 295-300
    \/ LockCache(t, "store", "store_locked")
    \/ UnlockCache(t, "store_locked", "idle")

InitGuards ==
    /\ gd = NoGuards
    /\ wq = None
    /\ uq = None
    /\ dq = None
    /\ now = 0
    /\ hasCP = TRUE
    /\ lease = NewLease(0, None, None, None, 0)
    /\ initial = lease
    /\ shutdown = FALSE
    /\ parkToken = FALSE
    /\ bgpc = "top"
    /\ bgDeadline = 0
    /\ bgIters = 0
    /\ tdpc = "live"
    /\ sd = None
    /\ call = [c \in Callers |-> IdleCaller]
    /\ inflight = {}
    /\ nExch = 0
    /\ nCalls = 0
    /\ nWrites = 0
    /\ replaced = {}
    /\ xc = XIdle
    /\ qLead = 0
    /\ qAns = None
    /\ client = [default_token |-> 0, control_plane |-> TRUE,
                 cached_write_token |-> None]
    /\ exec = [c \in ConnCallers |-> IdleExec]

NextGuards ==
    \/ BgGuardSteps
    \/ \E t \in {"c1", "c2"} : CtGuardSteps(t)
    \/ \E t \in {"w1", "w2"} : WtGuardSteps(t)

SpecGuards == InitGuards /\ [][NextGuards]_vars

\* ================================================================ claims
Threads == Callers \cup {Bg}
Refreshes == {x \in inflight : x.kind = "default"}
Returned(c, op) == call[c].pc = "returned" /\ call[c].cur.op = op

\* C1 (as stated): at most one exchange that will replace the default lease
\* is in flight at any time, over every interleaving of current_token()
\* callers and the background loop.
C1_AtMostOneRefreshInFlight == Cardinality(Refreshes) <= 1

\* C1 (amended): every thread has at most one default-token refresh in
\* flight, the background thread only while it is in the exchange step of its
\* loop and a caller only while it waits inside its synchronous refresh; the
\* refreshes of different threads may overlap.
C1_OneRefreshPerThread ==
    /\ \A t \in Threads : Cardinality(InFlightOf(t, "default")) <= 1
    /\ (InFlightOf(Bg, "default") # {}) <=> (bgpc = "exchanging")
    /\ \A c \in Callers :
          (InFlightOf(c, "default") # {}) <=> (call[c].pc = "refreshing")
    /\ Cardinality(Refreshes) <= 1 + Cardinality(Callers)

\* C1 witness: the refresh of the background loop and that of a caller are in
\* flight at once.
C1_Witness ==
    /\ InFlightOf(Bg, "default") # {}
    /\ \E c \in Callers : InFlightOf(c, "default") # {}

\* C2: whenever current_token() of a provider with a control plane returns
\* Ok(token), the lease the token was read from has an effective expiry
\* strictly later than the time of the return, or no known expiry.
C2_NeverHandsOutExpired ==
    \A c \in Callers :
        (hasCP /\ Returned(c, "current_token") /\ call[c].cur.kind = "ok")
            => (IsSome(call[c].cur.left) => Unwrap(call[c].cur.left) > 0)

\* C5: a provider without a control plane returns its initial token from
\* every current_token() call: no exchange, no background task, no
\* replacement of the lease, no error, whatever the lease's expiry says.
C5_StaticWithoutControlPlane ==
    ~hasCP =>
        /\ inflight = {} /\ nExch = 0 /\ nWrites = 0
        /\ bgpc = "none" /\ ~shutdown
        /\ lease = initial
        /\ \A c \in Callers :
              /\ call[c].pc \in {"idle", "returned"}
              /\ Returned(c, "current_token") =>
                    /\ call[c].cur.kind = "ok"
                    /\ call[c].cur.token = Some(initial.token)
                    /\ call[c].cur.nex = 0

\* C5 witness: without a control plane, current_token() has returned the
\* token of a lease whose expiry has passed.
C5_Witness ==
    /\ ~hasCP
    /\ \E c \in Callers :
          /\ Returned(c, "current_token")
          /\ call[c].cur.left = Some(0)
          /\ nCalls = MaxCalls

\* C6 (as stated): a current_token() call that finds the lease within the
\* lead window performs exactly one exchange with the token it found as
\* bearer and returns the token of that exchange's response; a call that
\* finds the lease not in need of refresh performs no exchange and returns
\* the token it found.
C6_RefreshReturnsOwnToken ==
    \A c \in Callers :
        (hasCP /\ Returned(c, "current_token")) =>
            LET r == call[c].cur
            IN  IF r.need
                THEN /\ r.nex = 1
                     /\ r.bearer = r.seen
                     /\ r.kind = "ok" => r.token = r.own
                ELSE /\ r.nex = 0
                     /\ r.kind = "ok" /\ r.token = r.seen

\* C6 (amended): such a call performs exactly one exchange with the token it
\* found as bearer, replaces the lease by the response and returns the token
\* the lease holds afterwards: the token of its own response unless another
\* refresh has replaced the lease in between, never the token it found.  A
\* call that finds the lease not in need of refresh (remaining validity
\* unknown or above the lead) performs no exchange and returns the token it
\* found.
C6_RefreshReturnsLeaseToken ==
    \A c \in Callers :
        (hasCP /\ Returned(c, "current_token")) =>
            LET r == call[c].cur
            IN  IF r.need
                THEN /\ r.nex = 1
                     /\ r.bearer = r.seen
                     /\ r.kind = "ok" =>
                           /\ IsSome(r.own) /\ IsSome(r.wrote)
                           /\ Unwrap(r.readAt) >= Unwrap(r.wrote)
                           /\ (r.token = r.own) <=> (r.readAt = r.wrote)
                           /\ r.token # r.seen
                           /\ Unwrap(r.token) \in 1..nExch
                ELSE /\ r.nex = 0
                     /\ r.kind = "ok" /\ r.token = r.seen
                     /\ IsSome(r.left) => Unwrap(r.left) > Lead

\* C6 witness: two calls have been made and one exchange, by the first of
\* them; the second has returned the token of that exchange's response
\* without an exchange of its own.
C6_Witness ==
    /\ hasCP /\ nCalls = 2 /\ nExch = 1 /\ bgIters = 0 /\ nWrites = 1
    /\ \E c \in Callers :
          /\ Returned(c, "current_token")
          /\ ~call[c].cur.need /\ call[c].cur.nex = 0
          /\ call[c].cur.token = Some(1)
          /\ lease.token = 1


\* C3 (as stated): once the shutdown flag has been set, the background task
\* neither starts nor completes an exchange and never replaces the lease,
\* wherever in its loop it was when the flag was set.
C3_NoRefreshOnceFlagSet ==
    [][shutdown => /\ InFlightOf(Bg, "default")' = InFlightOf(Bg, "default")
                   /\ lease' = lease]_vars

\* Where the background task cannot reach an exchange without loading the
\* flag first: before either check, parked, in the retry sleep, or gone.
BeforeACheck == {"top", "wait", "parked", "check", "retry_sleep", "exited"}

\* C3 (amended): no refresh runs after teardown has returned: by then the
\* task has exited, nothing is in flight and the lease is never replaced
\* again.  If the flag is set while the task is before one of its two checks
\* (at the top of the loop, computing its wait, parked, or in the retry sleep)
\* it begins no exchange and never replaces the lease.  A task that is past
\* the second check when the flag is set still performs that one exchange,
\* and an exchange in flight when the flag is set still completes; either may
\* replace the lease before the join returns.
C3_NoRefreshAfterTeardown ==
    /\ [](tdpc = "joined" =>
            /\ bgpc \in {"exited", "none"}
            /\ inflight = {})
    /\ [](IsSome(sd) =>
            /\ bgIters <= Unwrap(sd).iters + 1
            /\ bgIters > Unwrap(sd).iters => Unwrap(sd).pos = "bearer"
            /\ lease.token # Unwrap(sd).token =>
                  Unwrap(sd).pos \in {"bearer", "exchanging"}
            /\ Unwrap(sd).pos \in BeforeACheck =>
                  /\ InFlightOf(Bg, "default") = {}
                  /\ bgpc \in BeforeACheck)
    /\ [][tdpc = "joined" => lease' = lease /\ inflight' = inflight]_vars

\* C3 witness: the flag was set while the task was parked, and teardown has
\* returned with the lease and the count of exchanges as they were.
C3_Witness ==
    /\ tdpc = "joined"
    /\ IsSome(sd)
    /\ Unwrap(sd).pos = "parked"
    /\ bgIters = Unwrap(sd).iters
    /\ lease.token = Unwrap(sd).token
    /\ bgpc = "exited"


\* C4: the shutdown flag, once set, stays set; after it is set the background
\* task exits from wherever it is in its loop, provided an exchange in flight
\* returns, and teardown returns, only after the task has exited; the wake-up
\* is not lost when the unpark comes before the task parks.
C4_ShutdownTerminates ==
    /\ shutdown ~> (bgpc = "exited")
    /\ shutdown ~> (tdpc = "joined")
    /\ [](tdpc = "joined" /\ hasCP => bgpc = "exited" /\ shutdown)
    /\ [](bgpc = "parked" /\ tdpc = "unparked" => parkToken)
    /\ [][shutdown => shutdown']_vars

\* C4 witness: the task parks after teardown has stored the flag and called
\* unpark (the flag was stored between the task's first check and its
\* park_timeout); the token makes park_timeout return at once.
C4_Witness ==
    /\ bgpc = "parked" /\ now < bgDeadline
    /\ tdpc = "unparked" /\ parkToken
    /\ IsSome(sd) /\ Unwrap(sd).pos = "wait"


\* C8: issue_scoped_token(request) takes its bearer from current_token() (so
\* never the token that current_token() has just replaced), performs exactly
\* one exchange with that bearer and the caller's scopes and reason and
\* returns that exchange's response as it is; the response is not stored:
\* the call replaces the lease only through the refresh inside
\* current_token(), and the return of the scoped exchange leaves the lease
\* as it is.
C8_ScopedTokenNotStored ==
    /\ [](\A c \in Callers :
            (hasCP /\ Returned(c, "issue_scoped_token")) =>
                LET r == call[c].cur
                IN  /\ r.sx <= 1
                    /\ r.sx = 0 => (r.kind = "err" /\ r.need /\ r.nex = 1)
                    /\ r.sx = 1 =>
                          /\ IsSome(r.ctok) /\ r.sbearer = r.ctok
                          /\ r.sreq = r.req
                          /\ r.need => (r.nex = 1 /\ r.sbearer # r.seen)
                          /\ ~r.need => (r.nex = 0 /\ r.sbearer = r.seen)
                    /\ r.kind = "ok" =>
                          /\ r.sx = 1
                          /\ r.resp = r.sresp
                          /\ Unwrap(r.resp).scopes = Unwrap(r.req).scopes
                          /\ Unwrap(r.resp).token # lease.token
                    /\ IsSome(r.wrote) <=> (r.need /\ r.sx = 1))
    /\ [](\A x \in inflight : x.kind = "scoped" => x.id # lease.token)
    /\ [][\A c \in Callers :
            (call[c].pc = "scoped" /\ call'[c].pc = "returned")
                => (lease' = lease /\ nWrites' = nWrites)]_vars

\* C8 witness: issue_scoped_token has returned a response after its
\* current_token() refreshed the lease; the lease holds the refreshed default
\* token, not the scoped one.
C8_Witness ==
    \E c \in Callers :
        /\ hasCP /\ Returned(c, "issue_scoped_token")
        /\ call[c].cur.kind = "ok" /\ call[c].cur.need
        /\ call[c].cur.own = Some(lease.token)
        /\ Unwrap(call[c].cur.resp).token = lease.token + 1


\* C7: should_refresh(lead) is true iff the lease has a known effective
\* expiry (expires_at if present, else captured_at + ttl_seconds) and
\* max(0, expiry - now) <= lead; it is false for a lease with neither
\* expires_at nor ttl_seconds; a lease whose expiry has passed has 0 left and
\* is to be refreshed for every lead >= 0.
C7_ShouldRefreshIff ==
    IsSome(qAns) =>
        LET known == IsSome(lease.expires_at) \/ IsSome(lease.ttl_seconds)
            expiry == IF IsSome(lease.expires_at)
                      THEN Unwrap(lease.expires_at)
                      ELSE lease.captured_at + Unwrap(lease.ttl_seconds)
            rest == IF expiry - now >= 0 THEN expiry - now ELSE 0
            a == Unwrap(qAns)
        IN  /\ a.refresh <=> (known /\ rest <= qLead)
            /\ ~known => (~a.refresh /\ a.remaining = None)
            /\ known => a.remaining = Some(rest)
            /\ (known /\ expiry < now) => (a.remaining = Some(0) /\ a.refresh)

\* C7 witness: a lease with a ttl and no expires_at, expired, asked with lead 0.
C7_Witness ==
    /\ IsSome(qAns)
    /\ lease.expires_at = None /\ lease.ttl_seconds = Some(70)
    /\ lease.captured_at = 20 /\ now = 100 /\ qLead = 0
    /\ Unwrap(qAns).refresh

\* C9: a non-success status is never retried: exchange_token returns
\* TokenExchange with the response body ("unknown error" if the body cannot
\* be read) after that one response, whatever the retries and however many
\* transport failures came before; no request and no sleep follows it.
C9_RejectionNotRetried ==
    xc.rejects > 0 =>
        /\ xc.rejects = 1
        /\ xc.pc = "done"
        /\ IsSome(xc.got) /\ ~Unwrap(xc.got).success
        /\ xc.result = XErrTokenExchange(
                IF IsSome(Unwrap(xc.got).body)
                THEN Unwrap(Unwrap(xc.got).body) ELSE "unknown error")
        /\ xc.sent = xc.fails + 1
        /\ Len(xc.slept) = xc.fails
        /\ xc.fails <= xc.retries

\* C9 witness: a rejection after two transport failures on a client with
\* three retries.
C9_Witness ==
    /\ xc.rejects = 1 /\ xc.fails = 2 /\ xc.retries = 3 /\ xc.sent = 3
    /\ xc.pc = "done"
    /\ xc.result = XErrTokenExchange("forbidden")

\* What is left of a call: requests it may still send and a sleep to end.
XMeasure(x) ==
    IF x.pc = "done" THEN 0
    ELSE 2 * (x.retries + 1 - x.fails) + (IF x.pc = "sleep" THEN 1 ELSE 0)

\* C10: with retries = R exchange_token sends at most R + 1 requests, sleeps
\* backoff * k after the k-th failed attempt and not after the last, returns
\* the first response it receives, and after R + 1 transport failures returns
\* the last transport error; every step brings the call nearer to its end, so
\* it ends with a result; with R = 0 one request is sent.
C10_BoundedRetries ==
    /\ [](/\ xc.sent <= xc.retries + 1
          /\ xc.slept = [k \in 1..Len(xc.slept) |-> xc.backoff * k]
          /\ Len(xc.slept) <= xc.retries
          /\ xc.pc \in {"send", "sleep"} =>
                /\ xc.result = None
                /\ xc.sent = xc.fails /\ Len(xc.slept) = xc.fails
          /\ xc.pc = "done" =>
                /\ IsSome(xc.result)
                /\ xc.sent >= 1
                /\ IF IsSome(xc.got)
                   THEN /\ xc.sent = xc.fails + 1
                        /\ Len(xc.slept) = xc.fails
                        /\ Unwrap(xc.result).cause = 0
                   ELSE /\ xc.fails = xc.retries + 1
                        /\ xc.sent = xc.retries + 1
                        /\ Len(xc.slept) = xc.retries
                        /\ xc.result = XErrHttp(xc.retries + 1)
                /\ xc.retries = 0 => xc.sent = 1)
    /\ [][XMeasure(xc') < XMeasure(xc)]_xc

\* C10 witness: three retries, four transport failures, three sleeps of
\* 200, 400 and 600 ms, and the error of the fourth request returned.
C10_Witness ==
    /\ xc.pc = "done" /\ xc.retries = 3 /\ xc.backoff = 200
    /\ xc.sent = 4 /\ xc.fails = 4
    /\ xc.slept = <<200, 400, 600>>
    /\ xc.result = XErrHttp(4)

\* ---------------------------------------------------------------------------
\* C11: execute resolves its credential by intent: a write intent carries the
\* token of the write-token cache path, and any other intent carries the token
\* that the provider's current_token() returns at that moment, the token of
\* the current default Lease.  (Whatever current_token() does at that moment,
\* it returns the token of the current Lease or of a later one.)
C11_ReadCarriesProviderToken ==
    \A c \in ConnCallers :
        LET r == exec[c].cur
        IN  exec[c].pc \in {"sending", "returned"} /\ IsSome(r.token)
            => IF requires_write_scope(r.intent)
               THEN r.token = r.own
                    \/ (cache_hit(r.found, r.at) /\ r.token = Some(Unwrap(r.found).token))
               ELSE r.token = r.ptok

\* ---------------------------------------------------------------------------
\* C12: on a miss of the write-token cache the bearer presented to the
\* db-write exchange is the provider's current default token, never a default
\* token that has been replaced since.
C12_WriteBearerIsCurrentDefault ==
    \A c \in ConnCallers :
        LET r == exec[c].cur
        IN  IsSome(r.bearer) => r.bearer = r.ptok /\ Unwrap(r.bearer) \notin replaced

\* ---------------------------------------------------------------------------
\* C13: a write-intent call that finds a cached entry whose expiry is in the
\* future returns that entry's token with no exchange and leaves the cache as
\* it is; a call that finds the entry expired (or no entry) performs exactly
\* one exchange and, when it succeeds, stores the new token and returns it.
ExecBegins(c) == exec[c].pc = "idle" /\ exec'[c].pc # "idle"
ExchangeSucceeds(c) == exec[c].pc = "exchanging" /\ exec'[c].pc = "sending"

C13_WriteTokenCache ==
    [][\A c \in ConnCallers :
          /\ ExecBegins(c) /\ exec'[c].cur.intent = "write"
             => LET cached == client.cached_write_token
                    r == exec'[c].cur
                IN  IF cached # None /\ cached[1].expires_at > now
                    THEN /\ exec'[c].pc = "sending"
                         /\ r.token = Some(cached[1].token)
                         /\ r.nex = 0
                         /\ nExch' = nExch /\ inflight' = inflight
                         /\ client' = client
                    ELSE client.control_plane
                         => /\ exec'[c].pc = "exchanging"
                            /\ r.nex = 1
                            /\ nExch' = nExch + 1
                            /\ Cardinality(inflight') = Cardinality(inflight) + 1
                            /\ client' = client
          /\ ExchangeSucceeds(c)
             => LET r == exec'[c].cur
                IN  /\ r.nex = 1 /\ nExch' = nExch
                    /\ r.own = Some(TheExchange(c, "write").id)
                    /\ r.token = r.own
                    /\ client'.cached_write_token # None
                    /\ client'.cached_write_token[1].token = r.own[1]
          /\ exec'[c].cur.nex <= 1
      ]_vars

\* The second of two write calls finds the entry of the first expired and has
\* fetched, stored and resolved to a new token.
C13_Witness ==
    \E c \in ConnCallers :
        LET r == exec[c].cur
        IN  /\ exec[c].pc = "sending" /\ r.intent = "write"
            /\ r.found # None /\ r.found[1].token = 1 /\ r.found[1].expires_at <= r.at
            /\ r.nex = 1 /\ r.own = Some(2) /\ r.token = Some(2)
            /\ client.cached_write_token = r.stored
            /\ nExch = 2

\* ---------------------------------------------------------------------------
\* C14: the entry stored for a freshly fetched write token expires at
\* now + max(returned_ttl - 5, 5) seconds, the subtraction saturating at 0 for
\* returned_ttl < 5: the cache window is at least 5 seconds for every
\* returned_ttl, 0 included.
C14_WriteTokenExpiry ==
    [][\A c \in ConnCallers :
          ExchangeSucceeds(c)
          => LET r == exec'[c].cur
                 ttl == r.ttl[1]
                 window == r.stored[1].expires_at - now
             IN  /\ r.ttl # None /\ r.stored # None
                 /\ client'.cached_write_token = r.stored
                 /\ window = (IF ttl >= 10 THEN ttl - 5 ELSE 5)
                 /\ window >= 5
      ]_vars

\* A response with expires_in_seconds = 0 has been stored.
C14_Witness ==
    \E c \in ConnCallers :
        LET r == exec[c].cur
        IN  /\ exec[c].pc = "sending"
            /\ r.ttl = Some(0)
            /\ r.stored # None /\ r.stored[1].expires_at = r.at + 5
            /\ client.cached_write_token = r.stored

\* ---------------------------------------------------------------------------
\* C15: without a control plane a write-scoped request fails with
\* ControlPlaneMissing: execute with a write intent returns that error, sends
\* nothing to the broker and leaves the write-token cache empty;
\* issue_scoped_token returns that error and performs no exchange; execute
\* with a read intent is not affected (it sends, with the default token).
C15_ControlPlaneMissing ==
    ~hasCP
    => /\ client.cached_write_token = None
       /\ inflight = {} /\ nExch = 0
       /\ \A c \in ConnCallers :
             LET r == exec[c].cur
             IN  /\ r.intent = "write"
                    => /\ exec[c].pc = "returned"
                       /\ r.kind = "err" /\ r.err = "ControlPlaneMissing"
                       /\ r.sends = 0 /\ r.token = None
                 /\ r.intent = "read"
                    => /\ exec[c].pc \in {"sending", "returned"}
                       /\ r.token = Some(client.default_token)
                       /\ r.err # "ControlPlaneMissing"
                       /\ exec[c].pc = "returned" => r.sends = 1
       /\ \A c \in Callers :
             Returned(c, "issue_scoped_token")
             => /\ call[c].cur.kind = "err"
                /\ call[c].cur.err = "ControlPlaneMissing"
                /\ call[c].cur.sx = 0 /\ call[c].cur.nex = 0

\* Without a control plane a write-intent execute and an issue_scoped_token
\* call have both returned.
C15_Witness ==
    /\ ~hasCP
    /\ \E c \in ConnCallers :
          /\ exec[c].pc = "returned" /\ exec[c].cur.intent = "write"
          /\ exec[c].cur.err = "ControlPlaneMissing"
    /\ \E c \in Callers :
          /\ Returned(c, "issue_scoped_token")
          /\ call[c].cur.err = "ControlPlaneMissing"

\* ---------------------------------------------------------------------------
\* C16: an execute call performs at most one Endpoint.send: an error of the
\* credential resolution returns before any send, and a transport error or a
\* response that does not deserialize is returned after the one send.
C16_AtMostOneSend ==
    \A c \in ConnCallers :
        LET r == exec[c].cur
        IN  /\ r.sends <= 1
            /\ exec[c].pc \in {"exchanging", "sending"} => r.sends = 0
            /\ exec[c].pc = "returned"
               => /\ r.err \in {"ControlPlaneMissing", "Http", "TokenExchange"}
                     => r.sends = 0 /\ r.kind = "err"
                  /\ r.err \in {"ConnectorIo", "Serialization"}
                     => r.sends = 1 /\ r.kind = "err"
                  /\ r.kind = "ok" => r.sends = 1
                  /\ r.kind \in {"ok", "err"}
                  /\ (r.kind = "err") = (r.err # "none")

\* A write-intent call that fetched its token has returned the transport error
\* of its send.
C16_Witness ==
    \E c \in ConnCallers :
        /\ exec[c].pc = "returned"
        /\ exec[c].cur.intent = "write" /\ exec[c].cur.nex = 1
        /\ exec[c].cur.err = "ConnectorIo"
        /\ exec[c].cur.sends = 1

\* ---------------------------------------------------------------------------
\* C17: every DbConnectorResponse, built by ok() or err() or returned by
\* execute() from the broker's bytes, has exactly one of results and error:
\* results when ok is true, error when ok is false.
WellFormedResponse(response) ==
    /\ response.ok => IsSome(response.results) /\ ~IsSome(response.error)
    /\ ~response.ok => IsSome(response.error) /\ ~IsSome(response.results)

C17_ResponseWellFormed ==
    /\ \A results \in ResultLists : WellFormedResponse(DbConnectorResponse_ok(results))
    /\ \A message \in Messages : WellFormedResponse(DbConnectorResponse_err(message))
    /\ \A c \in ConnCallers :
          exec[c].pc = "returned" /\ exec[c].cur.kind = "ok"
          => WellFormedResponse(Unwrap(exec[c].cur.response))

\* ---------------------------------------------------------------------------
\* C18 (as stated): when the exchange inside current_token() or
\* issue_scoped_token() fails, the call returns that error, no token, and the
\* default Lease is as it was before the call: the call has not replaced it.
C18_FailedCallChangesNothing ==
    \A c \in Callers :
        call[c].pc = "returned" /\ call[c].cur.err \in ErrKinds
        => /\ call[c].cur.kind = "err"
           /\ call[c].cur.token = None /\ call[c].cur.resp = None
           /\ call[c].cur.wrote = None

\* C18 (amended): a failing exchange on the synchronous path is returned to
\* the caller as the error of the call (no token, no response) and the step
\* that fails changes nothing; a call whose refresh failed has not replaced
\* the Lease; only issue_scoped_token whose scoped exchange fails after its
\* own refresh succeeded returns an error with the Lease replaced by that
\* refresh.
C18_FailedExchangeChangesNothing ==
    [][\A c \in Callers :
          /\ call[c].pc \in {"refreshing", "scoped"}
             /\ call'[c].pc = "returned" /\ inflight' # inflight
             /\ call'[c].cur.resp = None
             => /\ lease' = lease /\ nWrites' = nWrites /\ replaced' = replaced
                /\ call'[c].cur.kind = "err"
                /\ call'[c].cur.err \in ErrKinds
                /\ call'[c].cur.token = None
                /\ call[c].pc = "refreshing" => call'[c].cur.wrote = None
          /\ call[c].pc # "returned"
             /\ call'[c].pc = "returned" /\ call'[c].cur.kind = "err"
             => /\ call'[c].cur.token = None /\ call'[c].cur.resp = None
                /\ call'[c].cur.wrote # None
                   => /\ call'[c].cur.op = "issue_scoped_token"
                      /\ call'[c].cur.sx = 1
                      /\ call[c].pc = "scoped"
      ]_vars

\* issue_scoped_token has returned the error of its scoped exchange after its
\* own refresh replaced the Lease.
C18_Witness ==
    \E c \in Callers :
        /\ Returned(c, "issue_scoped_token")
        /\ call[c].cur.err \in ErrKinds
        /\ call[c].cur.wrote # None
        /\ lease.token = Unwrap(call[c].cur.own)
        /\ lease # initial

\* ---------------------------------------------------------------------------
\* C19: a current_token() read returns the token of the Lease that is current
\* when it reads, which is never a token that has been replaced; every
\* replacement of the Lease puts in the whole Lease of one exchange response
\* (token and expiry of the same response), so with overlapping refreshes the
\* Lease is the one written last.
WholeLeaseOf(l, id, t) ==
    /\ l.token = id
    /\ l.captured_at = t
    /\ l.issued_at = Some(t)
    /\ l.ttl_seconds # None
    /\ l.expires_at = Some(t + l.ttl_seconds[1])

C19_LastWriterWins ==
    [][/\ lease.token \notin replaced
       /\ lease = initial \/ WholeLeaseOf(lease, lease.token, lease.captured_at)
       /\ lease' # lease
          => /\ \E x \in inflight :
                   /\ x.kind = "default" /\ x \notin inflight'
                   /\ WholeLeaseOf(lease', x.id, now)
             /\ replaced' = replaced \cup {lease.token}
             /\ lease'.token \notin replaced'
       /\ \A c \in Callers :
             call'[c].pc = "returned" /\ call[c].pc # "returned"
             /\ call'[c].cur.op = "current_token" /\ call'[c].cur.kind = "ok"
             => /\ call'[c].cur.token = Some(lease.token)
                /\ lease.token \notin replaced
                /\ lease' = lease
      ]_vars

\* Two refreshes overlapped, the background loop's (begun second) wrote first
\* and the caller's wrote last; the caller has returned the token of the Lease
\* written last.
C19_Witness ==
    /\ nWrites = 2
    /\ replaced = {0, 2}
    /\ lease.token = 1
    /\ \E c \in Callers :
          /\ Returned(c, "current_token")
          /\ call[c].cur.token = Some(1)
          /\ call[c].cur.own = Some(1)

\* ---------------------------------------------------------------------------
\* C20 (as stated): from_uri returns InvalidConnectorUri for every URI that
\* begins with neither ipc:// nor tcp:// and for every ipc:// or tcp:// URI
\* whose remainder is empty or only whitespace; otherwise it returns the Ipc
\* or Tcp endpoint holding the trimmed remainder.
BeginsWith(str, prefix) ==
    Len(str) >= Len(prefix) /\ \A i \in 1..Len(prefix) : str[i] = prefix[i]
Blank(str) == \A i \in 1..Len(str) : str[i] \in {" ", "\t", "\n"}
Remainder(uri) == [i \in 1..(Len(uri) - 6) |-> uri[i + 6]]
\* v is str without the whitespace at its two ends
TrimmedOf(v, str) ==
    /\ v # <<>> /\ ~Blank(<<v[1]>>) /\ ~Blank(<<v[Len(v)]>>)
    /\ \E i \in 0..Len(str) :
          /\ i + Len(v) <= Len(str)
          /\ \A k \in 1..Len(v) : str[i + k] = v[k]
          /\ \A k \in 1..i : str[k] \in {" ", "\t", "\n"}
          /\ \A k \in (i + Len(v) + 1)..Len(str) : str[k] \in {" ", "\t", "\n"}

IsInvalidUri(result) ==
    result.kind = "Err" /\ result.error = "InvalidConnectorUri"
    /\ result.endpoint = None
IsEndpoint(result, variant, uri) ==
    /\ result.kind = "Ok" /\ result.endpoint # None
    /\ result.endpoint[1].variant = variant
    /\ TrimmedOf(result.endpoint[1].value, Remainder(uri))

C20_FromUri ==
    uq # None /\ uq[1].result # None
    => LET uri == uq[1].uri
           result == uq[1].result[1]
       IN  IF ~BeginsWith(uri, IpcPrefix) /\ ~BeginsWith(uri, TcpPrefix)
           THEN IsInvalidUri(result)
           ELSE IF Blank(Remainder(uri))
           THEN IsInvalidUri(result)
           ELSE IF BeginsWith(uri, IpcPrefix)
           THEN IsEndpoint(result, "Ipc", uri)
           ELSE IsEndpoint(result, "Tcp", uri)

\* C20 (amended): the same, except that in a build for a platform without
\* unix sockets every ipc:// URI is an InvalidConnectorUri error.
C20_FromUriByPlatform ==
    uq # None /\ uq[1].result # None
    => LET uri == uq[1].uri
           unix == uq[1].unix
           result == uq[1].result[1]
       IN  IF ~BeginsWith(uri, IpcPrefix) /\ ~BeginsWith(uri, TcpPrefix)
           THEN IsInvalidUri(result)
           ELSE IF BeginsWith(uri, IpcPrefix) /\ ~unix
           THEN IsInvalidUri(result)
           ELSE IF Blank(Remainder(uri))
           THEN IsInvalidUri(result)
           ELSE IF BeginsWith(uri, IpcPrefix)
           THEN IsEndpoint(result, "Ipc", uri)
           ELSE IsEndpoint(result, "Tcp", uri)

\* An ipc:// URI with a path between whitespace has been parsed on a
\* platform without unix sockets.
C20_Witness ==
    /\ uq # None /\ uq[1].result # None
    /\ ~uq[1].unix
    /\ uq[1].uri = IpcPrefix \o <<" ", "a", " ", "b", "\t">>
    /\ uq[1].result[1].kind = "Err"

\* ---------------------------------------------------------------------------
\* C21: detect(statement) returns Read iff the first whitespace-delimited word
\* of the statement, compared without regard to (ASCII) case, is exactly one
\* of select, show, describe, with, explain; for every other statement, the
\* empty and the all-whitespace one included, it returns Write.
SameIgnoringCase(word, keyword) ==
    /\ Len(word) = Len(keyword)
    /\ \A k \in 1..Len(keyword) :
          \/ word[k] = keyword[k]
          \/ \E i \in 1..Len(LowerCase) :
                LowerCase[i] = keyword[k] /\ UpperCase[i] = word[k]

\* str[i..j] is the first whitespace-delimited word of str
IsFirstWord(str, i, j) ==
    /\ 1 <= i /\ i <= j /\ j <= Len(str)
    /\ \A k \in 1..(i - 1) : str[k] \in {" ", "\t", "\n"}
    /\ \A k \in i..j : str[k] \notin {" ", "\t", "\n"}
    /\ j = Len(str) \/ str[j + 1] \in {" ", "\t", "\n"}

C21_DetectIntent ==
    dq # None /\ dq[1].result # None
    => LET statement == dq[1].statement
           IsRead ==
               \E i, j \in 1..Len(statement) :
                   /\ IsFirstWord(statement, i, j)
                   /\ \E keyword \in ReadKeywords :
                         SameIgnoringCase([k \in 1..(j - i + 1) |-> statement[i + k - 1]],
                                          keyword)
       IN  /\ dq[1].result[1] \in {"read", "write"}
           /\ (dq[1].result[1] = "read") = IsRead
           /\ Blank(statement) => dq[1].result[1] = "write"

\* A statement that begins with whitespace and a keyword in mixed case is Read.
C21_Witness ==
    /\ dq # None /\ dq[1].result = Some("read")
    /\ dq[1].statement = <<"\n", "\t", "S", "e", "L", "e", "C", "t", " ", "x">>

\* ---------------------------------------------------------------------------
\* C22: no guard is held across network I/O: a thread that is inside an
\* exchange holds neither the guard of the default Lease nor the guard of the
\* write-token cache (background loop, current_token() and fetch_write_token
\* alike), and a guard is held only in the short sections that read or
\* replace the value; so whoever is inside an exchange, the guards can be
\* taken by other threads.
C22_NoGuardAcrossExchange ==
    /\ \A t \in gd.io :
          /\ gd.lease_guard # t /\ gd.cache_guard # t
          /\ gd.pc[t] = "exchanging"
    /\ \A t \in GuardThreads :
          /\ gd.lease_guard = t
             => gd.pc[t] \in {"wait_locked", "bearer_locked", "check_locked",
                              "store_locked", "reread_locked"}
          /\ gd.cache_guard = t => gd.pc[t] \in {"look_locked", "store_locked"}
          /\ gd.pc[t] \in {"call", "exchanging", "store", "reread"}
             => gd.lease_guard # t /\ gd.cache_guard # t

\* While the background thread, a caller of current_token() and a caller of
\* execute() are each inside an exchange, another thread holds the guard of
\* the Lease and another the guard of the cache.
C22_Witness ==
    /\ gd.io = {"bg", "c1", "w1"}
    /\ gd.lease_guard = "c2"
    /\ gd.cache_guard = "w2"

\* ---------------------------------------------------------------------------
\* The lease has neither expires_at nor ttl_seconds.
NoKnownExpiry(l) == ~IsSome(effective_expires_at(l))

\* C23 (as stated): while the provider's lease has no known expiry, no exchange
\* for the default token is begun, by current_token() or by the background
\* loop, and the lease is not replaced.
C23_NoExpiryNeverRefreshed ==
    NoKnownExpiry(initial) => lease = initial /\ Refreshes = {}

\* C23 (amended): while the lease has no known expiry, current_token() begins no
\* exchange for it and returns its token; the only exchange begun for it, and
\* the only replacement of it, is that of the background loop after its wait.
C23_OnlyBackgroundRefreshesNoExpiry ==
    [][NoKnownExpiry(lease) =>
          /\ \A x \in inflight' \ inflight :
                x.kind = "default" => x.owner = Bg /\ bgpc = "bearer"
          /\ lease' # lease => bgpc = "exchanging" /\ bgpc' = "top"
          /\ \A c \in Callers :
                call[c].pc = "idle" /\ call'[c].pc # "idle"
                /\ call'[c].cur.op = "current_token"
                => /\ call'[c].pc = "returned"
                   /\ call'[c].cur.kind = "ok"
                   /\ call'[c].cur.token = Some(lease.token)
                   /\ call'[c].cur.nex = 0]_vars

\* A lease with no known expiry, 300 seconds old, has been returned by
\* current_token() without an exchange while the exchange of the background
\* loop for it is in flight.
C23_Witness ==
    /\ NoKnownExpiry(lease)
    /\ now >= AUTO_REFRESH_FALLBACK_SLEEP_SECS
    /\ InFlightOf(Bg, "default") # {}
    /\ \E c \in Callers :
          /\ Returned(c, "current_token")
          /\ call[c].cur.kind = "ok"
          /\ call[c].cur.nex = 0

\* ---------------------------------------------------------------------------
\* The remaining validity of lease l at time t, when it is known.
KnownRemaining(l, t) ==
    LET e == IF IsSome(l.expires_at) THEN Unwrap(l.expires_at)
             ELSE l.captured_at + Unwrap(l.ttl_seconds)
    IN  IF e > t THEN e - t ELSE 0

\* w is the sleep the loop is to choose for lease l at time t, with tps ticks
\* to the second.
IsChosenSleep(w, l, t, tps) ==
    /\ w >= 0
    /\ NoKnownExpiry(l) => w = 300 * tps
    /\ ~NoKnownExpiry(l) /\ KnownRemaining(l, t) <= 60 * tps => w = 5 * tps
    /\ ~NoKnownExpiry(l) /\ KnownRemaining(l, t) > 60 * tps
       => /\ w % tps = 0
          /\ w <= KnownRemaining(l, t) - 60 * tps
          /\ KnownRemaining(l, t) - 60 * tps < w + tps

\* C24: each iteration of the background loop chooses its sleep from the
\* lease: 300 s when the remaining validity is unknown, 5 s when it is at most
\* the lead (60 s), and remaining - lead otherwise, cut to whole seconds and
\* never negative; the thread sleeps that long, and after waking it looks at
\* the shutdown flag again and, if it is set, exits without reading the
\* bearer or beginning an exchange.
C24_SleepChoiceAndRecheck ==
    /\ [](IsSome(wq) =>
             IsChosenSleep(Unwrap(wq).wait, Unwrap(wq).lease, Unwrap(wq).now,
                           SubSecond))
    /\ [][/\ bgpc = "wait" /\ bgpc' # "wait"
             => \E w \in 0..AUTO_REFRESH_FALLBACK_SLEEP_SECS :
                   /\ IsChosenSleep(w, lease, now, 1)
                   /\ IF w = 0 THEN bgpc' = "check"
                      ELSE bgpc' = "parked" /\ bgDeadline' = now + w
          /\ bgpc = "parked" /\ bgpc' # "parked" => bgpc' = "check"
          /\ bgpc = "check" /\ bgpc' # "check"
             => IF shutdown
                THEN bgpc' = "exited" /\ inflight' = inflight /\ nExch' = nExch
                ELSE bgpc' = "bearer"]_vars

\* The loop has chosen a sleep of remaining - lead and has exited after it
\* on the flag; and the sleep asked for on its own is one where a part of a
\* second was cut off.
C24_Witness ==
    /\ IsSome(wq)
    /\ ~NoKnownExpiry(Unwrap(wq).lease)
    /\ Unwrap(wq).wait > 0
    /\ Unwrap(wq).wait <
          KnownRemaining(Unwrap(wq).lease, Unwrap(wq).now) - 60 * SubSecond
    /\ initial = NewLease(0, None, None, Some(120), 0)
    /\ lease = initial
    /\ now = 60
    /\ bgpc = "exited"
    /\ bgIters = 0
    /\ IsSome(sd) /\ Unwrap(sd).pos = "parked"

\* ---------------------------------------------------------------------------
\* The step is the return of a failed exchange of the background loop.
BgExchangeFails == bgpc = "exchanging" /\ bgpc' # "exchanging" /\ nWrites' = nWrites

\* C25: a failed exchange of the background loop does not end the loop and
\* does not change the lease: the thread sleeps the retry interval (5 s) and
\* goes to the next iteration, again and again until an exchange succeeds or
\* shutdown is signalled; the error reaches no caller, and a current_token()
\* call made meanwhile returns, with a token or with the error of its own
\* exchange.
C25_BackgroundFailureRetried ==
    /\ [][/\ BgExchangeFails
             => /\ bgpc' = "retry_sleep"
                /\ bgDeadline' = now + 5
                /\ lease' = lease
                /\ call' = call
          /\ bgpc = "retry_sleep" /\ bgpc' # "retry_sleep"
             => bgpc' = "top" /\ now >= bgDeadline /\ lease' = lease
          /\ \A c \in Callers :
                call[c].pc # "returned" /\ call'[c].pc = "returned"
                /\ call'[c].cur.kind = "err"
                => call[c].pc = "refreshing" /\ InFlightOf(c, "default") # {}]_vars
    /\ (bgpc = "retry_sleep" /\ bgIters < MaxBgRounds)
          ~> (bgpc \in {"exchanging", "exited"})
    /\ \A c \in ScopedCallers :
          (call[c].pc = "refreshing") ~> (call[c].pc = "returned")

\* The first exchange of the loop has failed, the lease is the one the
\* provider was built with, a current_token() call has returned it, and the
\* second exchange of the loop is in flight.
C25_Witness ==
    /\ bgIters = 2
    /\ bgpc = "exchanging"
    /\ ~shutdown
    /\ nWrites = 0
    /\ lease = initial
    /\ \E c \in Callers :
          /\ Returned(c, "current_token")
          /\ call[c].cur.kind = "ok"
          /\ call[c].cur.token = Some(initial.token)

\* ---------------------------------------------------------------------------
\* The lease has a known expiry that was more than the lead away when the
\* lease was made.
Renewable(l) ==
    /\ ~NoKnownExpiry(l)
    /\ Unwrap(effective_expires_at(l)) - l.captured_at > 60

C27_CacheWithinGrantedValidity ==
    /\ [][\A c \in ConnCallers :
             ExchangeSucceeds(c)
             => exec'[c].cur.stored[1].expires_at <= now + exec'[c].cur.ttl[1]
       ]_vars
    /\ [](\A c, d \in ConnCallers :
             /\ exec[c].pc = "sending"
             /\ exec[c].cur.intent = "write"
             /\ exec[c].cur.nex = 0
             /\ exec[d].cur.stored # None
             /\ exec[d].cur.stored = exec[c].cur.found
             => LET entry == exec[d].cur.stored[1]
                    ttl == exec[d].cur.ttl[1]
                    received == entry.expires_at - (IF ttl >= 10 THEN ttl - 5 ELSE 5)
                IN  exec[c].cur.at < received + ttl)

\* ---------------------------------------------------------------------------
\* The step is the return of a failed write-token exchange of caller c.
ExchangeFails(c) == exec[c].pc = "exchanging" /\ exec'[c].pc = "returned"

\* C28: a failed write-token exchange leaves the write-token cache as it was
\* (empty, or holding an expired entry, which is not served), and execute
\* returns the error without a send to the broker; a write call that finds no
\* valid entry begins a new exchange, also after a failure; callers that have
\* both passed the look at the cache each return the token of their own
\* exchange, and the cache holds the entry that was written last.
C28_FailedFetchAndRace ==
    [][/\ \A c \in ConnCallers :
             /\ ExchangeFails(c)
                => /\ client' = client
                   /\ exec[c].cur.found # None
                      => exec[c].cur.found[1].expires_at <= exec[c].cur.at
                   /\ exec'[c].cur.kind = "err"
                   /\ exec'[c].cur.err \in ErrKinds
                   /\ exec'[c].cur.sends = 0
                   /\ exec'[c].cur.token = None
                   /\ exec'[c].cur.stored = None
             /\ ExecBegins(c) /\ exec'[c].cur.intent = "write"
                /\ client.control_plane
                /\ ~(/\ client.cached_write_token # None
                     /\ client.cached_write_token[1].expires_at > now)
                => /\ exec'[c].pc = "exchanging"
                   /\ Cardinality(InFlightOf(c, "write")') = 1
                   /\ nExch' = nExch + 1
             /\ ExchangeSucceeds(c)
                => /\ exec'[c].cur.token = Some(TheExchange(c, "write").id)
                   /\ client'.cached_write_token = exec'[c].cur.stored
                   /\ exec'[c].cur.stored[1].token = TheExchange(c, "write").id
       /\ client' # client
          => \E c \in ConnCallers :
                /\ ExchangeSucceeds(c)
                /\ client' = [client EXCEPT
                                 !.cached_write_token = exec'[c].cur.stored]
      ]_vars

\* Two write calls have both found the cache empty and have both exchanged:
\* each sends the token of its own exchange, and the cache holds the entry of
\* the one that stored last.
C28_Witness ==
    \E c, d \in ConnCallers :
        /\ c # d
        /\ exec[c].pc = "sending" /\ exec[d].pc = "sending"
        /\ exec[c].cur.found = None /\ exec[d].cur.found = None
        /\ exec[c].cur.token = Some(2) /\ exec[d].cur.token = Some(1)
        /\ exec[c].cur.stored # None /\ exec[d].cur.stored # None
        /\ exec[c].cur.stored # exec[d].cur.stored
        /\ client.cached_write_token = exec[d].cur.stored

\* ---------------------------------------------------------------------------
\* The step is the return of a token by the current_token() call of caller c.
ReturnsToken(c) ==
    /\ call[c].pc # "returned"
    /\ call'[c].pc = "returned"
    /\ call'[c].cur.op = "current_token"
    /\ call'[c].cur.kind = "ok"

\* C29: current_token() takes effect at one instant of the call: the token it
\* returns is the token of the provider's lease at the step of the call that
\* read it, whatever the background loop and the other callers do; after a
\* refresh of its own that step is the read that follows its write, so the
\* token is that of its own exchange or of a lease written after it, and not
\* the token it had found before the refresh.
C29_ReturnsTokenOfLease ==
    [][\A c \in Callers :
          ReturnsToken(c)
          => LET r == call'[c].cur
             IN  /\ r.token = Some(lease.token)
                 /\ lease' = lease
                 /\ r.readAt = Some(nWrites)
                 /\ call[c].pc = "idle" => r.nex = 0 /\ ~r.need
                 /\ call[c].pc # "idle"
                    => /\ call[c].pc = "reread"
                       /\ r.need /\ r.nex = 1
                       /\ r.wrote # None /\ r.wrote[1] <= nWrites
                       /\ r.wrote[1] = nWrites => r.token = r.own
                       /\ r.wrote[1] < nWrites
                          => r.token # r.own /\ r.own[1] \in replaced
                       /\ r.token # r.seen
                       /\ r.seen[1] \in replaced
      ]_vars

\* A caller has refreshed the lease, the background loop has replaced the
\* lease again before the caller read it, and the caller has returned the
\* token of the loop's lease.
C29_Witness ==
    \E c \in Callers :
        LET r == call[c].cur
        IN  /\ Returned(c, "current_token")
            /\ r.need /\ r.kind = "ok"
            /\ r.own = Some(1) /\ r.wrote = Some(1)
            /\ r.token = Some(2) /\ r.readAt = Some(2)
            /\ bgIters = 1 /\ bgpc = "top"
            /\ lease.token = 2

====
